---------------------------- MODULE Spec2Model ----------------------------
(***************************************************************************)
(* Angular-velocity integrators of the L4 DAR prototype:                   *)
(*   L4Physics.integrate          (src/test_l4_physics.py)                 *)
(*   L4PhysicsSimulator.update    (src/automated_physics_test.py)          *)
(* and the drivers that step them over a hold/release schedule.            *)
(*                                                                         *)
(* The Python code computes in IEEE doubles.  The model computes in fixed  *)
(* point, rounding every product and quotient to the nearest unit as the   *)
(* floating-point operations round to the nearest representable value:     *)
(*   angular velocity      1/1000 rad/s        (RateScale)                 *)
(*   angular acceleration  1/1000 rad/s^2                                  *)
(*   stick axes, eff       1/100               (StickScale)                *)
(*   damping coefficients  1/100 1/s           (CoefScale)                 *)
(*   dimensionless factors 1/10000             (FactorScale)               *)
(*   tick interval dt      1/hz seconds, hz ticks per second               *)
(***************************************************************************)
EXTENDS Integers, Sequences, FiniteSets, TLC

VARIABLES
    impl,     \* which integrator class the run constructed
    p,        \* the integrator's parameter attributes (set by __init__)
    hz,       \* tick rate: dt = 1/hz
    w,        \* self.w, the angular velocity Vector3 [x, y, z]
    dar_on,   \* L4PhysicsSimulator.self.dar_on (unused field for L4Physics)
    inp,      \* the input sample of the last step
    prev,     \* self.w before the last step
    frame,    \* number of steps made so far (the drivers' frame counter)
    drv,      \* the driver's own state (schedule, elapsed time, phase)
    twin      \* a second integrator stepped beside the first, or NoTwin

vars == <<impl, p, hz, w, dar_on, inp, prev, frame, drv, twin>>

----------------------------------------------------------------------------
(* Fixed-point representation of the Python floats *)

RateScale == 1000
StickScale == 100
CoefScale == 100
FactorScale == 10000

Abs(n) == IF n < 0 THEN -n ELSE n

Sign(n) == IF n < 0 THEN -1 ELSE IF n > 0 THEN 1 ELSE 0

\* n / d rounded to the nearest integer, halves away from zero (d > 0)
RoundDiv(n, d) ==
    IF n >= 0 THEN (2 * n + d) \div (2 * d)
    ELSE -((2 * (-n) + d) \div (2 * d))

\* math.copysign(m, s) for m >= 0 and s # 0
CopySign(m, s) == IF s < 0 THEN -m ELSE m

RECURSIVE FloorSqrt(_, _, _)
\* the largest r in lo..hi with r * r <= n
FloorSqrt(n, lo, hi) ==
    IF lo >= hi THEN lo
    ELSE LET mid == (lo + hi + 1) \div 2
         IN  IF mid * mid <= n THEN FloorSqrt(n, mid, hi)
             ELSE FloorSqrt(n, lo, mid - 1)

\* r = floor(sqrt(n)) rounded up when n is nearer to (r + 1)^2
SqrtRound(n, r) == IF n - r * r > r THEN r + 1 ELSE r

\* math.sqrt: the square root rounded to the nearest unit
Sqrt(n) == SqrtRound(n, FloorSqrt(n, 0, 46340))

RECURSIVE ExpSeries(_, _, _)
\* the alternating series  term - term*x/k + term*x^2/(k(k+1)) - ...
ExpSeries(term, k, x) ==
    IF term = 0 THEN 0
    ELSE term - ExpSeries(RoundDiv(term * x, FactorScale * k), k + 1, x)

\* math.exp(-x) for x >= 0, x and the result in FactorScale units
ExpNeg(x) == ExpSeries(FactorScale, 1, x)

\* math.pi as the rational 355/113
PiNum == 355
PiDen == 113

\* deg/s^2 -> rad/s^2 : deg * pi / 180, result in RateScale units
DegToRad(deg) == RoundDiv(deg * RateScale * PiNum, PiDen * 180)

----------------------------------------------------------------------------
(* Vector3 *)

Vector3(x, y, z) == [x |-> x, y |-> y, z |-> z]

Zero == Vector3(0, 0, 0)

\* the sum of squares under the root of Vector3.length
NormSq(v) == v.x * v.x + v.y * v.y + v.z * v.z

\* Vector3.length
length(v) == Sqrt(NormSq(v))

\* mutant: the z component is left unscaled
multiply_scalarXY(v, s) ==
    Vector3(RoundDiv(v.x * s, FactorScale),
            RoundDiv(v.y * s, FactorScale),
            v.z)

\* Vector3.multiply_scalar, the scalar in FactorScale units
multiply_scalar(v, s) ==
    Vector3(RoundDiv(v.x * s, FactorScale),
            RoundDiv(v.y * s, FactorScale),
            RoundDiv(v.z * s, FactorScale))

----------------------------------------------------------------------------
(* L4Physics (src/test_l4_physics.py) *)

\* the attributes L4Physics.__init__ sets
L4Params ==
    [max_accel_pitch |-> 714, max_accel_yaw |-> 521, max_accel_roll |-> 2153,
     damp |-> 296, damp_dar |-> 435, brake_on_release |-> 0,
     w_max |-> 5500,
     w_max_pitch |-> 24000, w_max_yaw |-> 24000, w_max_roll |-> 24000,
     free_roll_period |-> 74]

\* PD gains of L4Physics.integrate
Kp == 20
Kd == 3

\* DAR acceleration multipliers of L4Physics.integrate, in 1/1000
L4DarPitchMult == 997
L4DarYawMult == 1000
L4DarRollMult == 980

MultScale == 1000

\* no_stick = eff < 0.02, in StickScale units
NoStickEff == 2

\* if eff > 1.0: eff = 1.0
EffClamp(eff) == IF eff > StickScale THEN StickScale ELSE eff

\* 1. stick effectiveness: sqrt(ux^2 + uy^2), clamped to 1.0
L4Eff(ux, uy) == EffClamp(Sqrt(ux * ux + uy * uy))

\* mutant: the pitch and roll multipliers are exchanged
L4DarScaledSwapped(lim, dar) ==
    IF dar
    THEN Vector3(RoundDiv(lim.x * L4DarRollMult, MultScale),
                 RoundDiv(lim.y * L4DarYawMult, MultScale),
                 RoundDiv(lim.z * L4DarPitchMult, MultScale))
    ELSE lim

\* 3. the limits multiplied by the DAR multipliers when DAR is on
L4DarScaled(lim, dar) ==
    IF dar
    THEN Vector3(RoundDiv(lim.x * L4DarPitchMult, MultScale),
                 RoundDiv(lim.y * L4DarYawMult, MultScale),
                 RoundDiv(lim.z * L4DarRollMult, MultScale))
    ELSE lim

\* 2.-3. the three acceleration limits in rad/s^2
L4MaxAccel(q, dar) ==
    L4DarScaled(Vector3(DegToRad(q.max_accel_pitch),
                        DegToRad(q.max_accel_yaw),
                        DegToRad(q.max_accel_roll)), dar)

\* mutant: roll mode 0 is taken for "roll right"
L4TargetRollSpeedRight(q, dar, air_roll) ==
    IF dar /\ q.free_roll_period > 0 /\ air_roll # 2
    THEN RoundDiv((IF air_roll = 0 THEN 1 ELSE air_roll) * 2 * PiNum * RateScale * CoefScale,
                  PiDen * q.free_roll_period)
    ELSE 0

\* 4. target_roll_speed
L4TargetRollSpeed(q, dar, air_roll) ==
    IF dar /\ q.free_roll_period > 0 /\ air_roll # 2
    THEN RoundDiv(air_roll * 2 * PiNum * RateScale * CoefScale,
                  PiDen * q.free_roll_period)
    ELSE 0

\* mutant: free-roll mode keeps the yaw demand of the normal mode
DesiredYawInFreeRoll(q, eff, ux, uy, air_roll, target_roll_speed) ==
    IF air_roll = 2
    THEN Vector3(RoundDiv(q.w_max_pitch * eff * uy, StickScale * StickScale),
                 RoundDiv(q.w_max_yaw * eff * ux, StickScale * StickScale),
                 RoundDiv(q.w_max_roll * eff * (-ux), StickScale * StickScale))
    ELSE Vector3(RoundDiv(q.w_max_pitch * eff * uy, StickScale * StickScale),
                 RoundDiv(q.w_max_yaw * eff * ux, StickScale * StickScale),
                 target_roll_speed)

\* 5. stick -> desired spin rates, for the stick (ux, uy) of effectiveness eff
Desired(q, eff, ux, uy, air_roll, target_roll_speed) ==
    IF air_roll = 2
    THEN Vector3(RoundDiv(q.w_max_pitch * eff * uy, StickScale * StickScale),
                 0,
                 RoundDiv(q.w_max_roll * eff * (-ux), StickScale * StickScale))
    ELSE Vector3(RoundDiv(q.w_max_pitch * eff * uy, StickScale * StickScale),
                 RoundDiv(q.w_max_yaw * eff * ux, StickScale * StickScale),
                 target_roll_speed)

L4Desired(q, ux, uy, dar, air_roll) ==
    Desired(q, L4Eff(ux, uy), ux, uy, air_roll, L4TargetRollSpeed(q, dar, air_roll))

\* 6. the PD demand  Kp * (w_des - w) - Kd * w  per axis
L4Demand(des, v) ==
    Vector3(Kp * (des.x - v.x) - Kd * v.x,
            Kp * (des.y - v.y) - Kd * v.y,
            Kp * (des.z - v.z) - Kd * v.z)

\* if abs(a) > lim: a = math.copysign(lim, a)
ClampCopySign(a, lim) == IF Abs(a) > lim THEN CopySign(lim, a) ELSE a

\* mutant: any nonzero demand is driven at the full limit
L4ClampSaturate(a, lim) ==
    Vector3(IF a.x = 0 THEN 0 ELSE CopySign(lim.x, a.x),
            IF a.y = 0 THEN 0 ELSE CopySign(lim.y, a.y),
            IF a.z = 0 THEN 0 ELSE CopySign(lim.z, a.z))

\* 6. clamp to max acceleration
L4Clamp(a, lim) ==
    Vector3(ClampCopySign(a.x, lim.x),
            ClampCopySign(a.y, lim.y),
            ClampCopySign(a.z, lim.z))

\* the acceleration integrate applies from the state v
L4Accel(q, v, ux, uy, dar, air_roll) ==
    L4Clamp(L4Demand(L4Desired(q, ux, uy, dar, air_roll), v), L4MaxAccel(q, dar))

\* mutant: the acceleration is subtracted
IntegratedMinus(v, a, h) ==
    Vector3(v.x - RoundDiv(a.x, h), v.y - RoundDiv(a.y, h), v.z - RoundDiv(a.z, h))

\* w += a * dt
Integrated(v, a, h) ==
    Vector3(v.x + RoundDiv(a.x, h), v.y + RoundDiv(a.y, h), v.z + RoundDiv(a.z, h))

\* mutant: the two damping coefficients are taken the wrong way round
DampEffSwapped(q, dar) ==
    (IF dar THEN q.damp ELSE q.damp_dar) + (IF ~dar THEN q.brake_on_release ELSE 0)

\* damp_eff = base_damp + (brake_on_release if not dar_on else 0)
DampEff(q, dar) ==
    (IF dar THEN q.damp_dar ELSE q.damp) + (IF ~dar THEN q.brake_on_release ELSE 0)

\* scale = math.exp(-damp_eff * dt)
DampScale(q, h, dar) ==
    ExpNeg(RoundDiv(DampEff(q, dar) * (FactorScale \div CoefScale), h))

\* mutant: the damping is applied on every tick
DampedAlways(u, eff, scale) == multiply_scalar(u, scale)

\* 7. damping, only when the stick is released: no_stick = eff < 0.02
Damped(u, eff, scale) ==
    IF eff < NoStickEff THEN multiply_scalar(u, scale) ELSE u

\* mutant: the yaw cap is forgotten
L4AxisCappedNoYaw(q, u) ==
    Vector3(ClampCopySign(u.x, q.w_max_pitch), u.y, ClampCopySign(u.z, q.w_max_roll))

\* 8. per-axis caps on pitch, yaw and roll
L4AxisCapped(q, u) ==
    Vector3(ClampCopySign(u.x, q.w_max_pitch),
            ClampCopySign(u.y, q.w_max_yaw),
            ClampCopySign(u.z, q.w_max_roll))

\* mutant: the global cap scales nothing
GlobalScaledOff(q, u, w_mag) == u

\* if w_mag > w_max: multiply_scalar(w_max / w_mag)
GlobalScaled(q, u, w_mag) ==
    IF w_mag > q.w_max
    THEN multiply_scalar(u, RoundDiv(q.w_max * FactorScale, w_mag))
    ELSE u

\* mutant: the magnitude is left squared (no square root)
GlobalCappedSquared(q, u) == GlobalScaled(q, u, NormSq(u) \div RateScale)

\* 8. global cap
GlobalCapped(q, u) == GlobalScaled(q, u, length(u))

\* mutant: the roll component skips the per-axis caps
integrateNoRollCap(q, v, h, ux, uy, dar, air_roll) ==
    LET u == Damped(Integrated(v, L4Accel(q, v, ux, uy, dar, air_roll), h),
                    L4Eff(ux, uy), DampScale(q, h, dar))
    IN  GlobalCapped(q, Vector3(ClampCopySign(u.x, q.w_max_pitch),
                                ClampCopySign(u.y, q.w_max_yaw),
                                u.z))

\* L4Physics.integrate(dt, ux, uy, dar_on, air_roll): the new self.w
integrate(q, v, h, ux, uy, dar, air_roll) ==
    GlobalCapped(q, L4AxisCapped(q,
        Damped(Integrated(v, L4Accel(q, v, ux, uy, dar, air_roll), h),
               L4Eff(ux, uy), DampScale(q, h, dar))))

----------------------------------------------------------------------------
(* L4PhysicsSimulator (src/automated_physics_test.py) *)

\* the attributes L4PhysicsSimulator.__init__ sets (self.w and self.dar_on
\* are the variables w and dar_on)
SimParams ==
    [max_accel_pitch |-> 714, max_accel_yaw |-> 521, max_accel_roll |-> 573,
     dar_pitch_mult |-> 997, dar_yaw_mult |-> 3170, dar_roll_mult |-> 1320,
     input_pow |-> 1,
     damp |-> 296, damp_dar |-> 435, brake_on_release |-> 0,
     w_max |-> 5500,
     w_max_pitch |-> 24000, w_max_yaw |-> 24000, w_max_roll |-> 24000,
     max_accel_pitch_rad |-> DegToRad(714),
     max_accel_yaw_rad |-> DegToRad(521),
     max_accel_roll_rad |-> DegToRad(573)]

\* PD gains of L4PhysicsSimulator.update
KpPitch == 36
KdPitch == 4
KpYaw == 36
KdYaw == 4
KpRoll == 12
KdRoll == 3

RECURSIVE PowStick(_, _)
\* abs(joy) ** input_pow for a whole exponent, in StickScale units
PowStick(a, n) ==
    IF n <= 1 THEN a ELSE RoundDiv(a * PowStick(a, n - 1), StickScale)

\* the input curve: applied only when input_pow != 1.0
SimCurve(q, joy) ==
    IF q.input_pow # 1
    THEN CopySign(PowStick(Abs(joy), q.input_pow), joy)
    ELSE joy

\* if eff > 1.0: joy_x /= eff; joy_y /= eff; eff = 1.0
SimNormalised(cx, cy, eff) ==
    IF eff > StickScale
    THEN [x |-> RoundDiv(cx * StickScale, eff),
          y |-> RoundDiv(cy * StickScale, eff),
          eff |-> StickScale]
    ELSE [x |-> cx, y |-> cy, eff |-> eff]

\* eff = math.sqrt(joy_x**2 + joy_y**2)
SimMagnitude(cx, cy) == SimNormalised(cx, cy, Sqrt(cx * cx + cy * cy))

\* the stick after the input curve and the normalisation: [x, y, eff]
SimStick(q, joy_x, joy_y) == SimMagnitude(SimCurve(q, joy_x), SimCurve(q, joy_y))

\* self.dar_on = handbrake and (air_roll in [-1, 0, 1])
SimDarOn(air_roll, handbrake) == handbrake /\ air_roll \in {-1, 0, 1}

\* desired spin rates for the shaped stick s; target_roll_speed is 0
SimDesiredOf(q, s, air_roll) == Desired(q, s.eff, s.x, s.y, air_roll, 0)

SimDesired(q, joy_x, joy_y, air_roll) ==
    SimDesiredOf(q, SimStick(q, joy_x, joy_y), air_roll)

\* mutant: the rate error is taken with the wrong sign
SimDemandReversed(des, v) ==
    Vector3(KpPitch * (v.x - des.x) - KdPitch * v.x,
            KpYaw * (v.y - des.y) - KdYaw * v.y,
            KpRoll * (v.z - des.z) - KdRoll * v.z)

\* PD control -> desired angular acceleration per axis
SimDemand(des, v) ==
    Vector3(KpPitch * (des.x - v.x) - KdPitch * v.x,
            KpYaw * (des.y - v.y) - KdYaw * v.y,
            KpRoll * (des.z - v.z) - KdRoll * v.z)

\* mutant: the DAR multipliers are applied whether or not dar_on is set
SimMaxAccelAlways(q, dar) ==
    Vector3(RoundDiv(q.max_accel_pitch_rad * q.dar_pitch_mult, MultScale),
            RoundDiv(q.max_accel_yaw_rad * q.dar_yaw_mult, MultScale),
            RoundDiv(q.max_accel_roll_rad * q.dar_roll_mult, MultScale))

\* the acceleration limits, multiplied by the DAR multipliers when dar_on
SimMaxAccel(q, dar) ==
    IF dar
    THEN Vector3(RoundDiv(q.max_accel_pitch_rad * q.dar_pitch_mult, MultScale),
                 RoundDiv(q.max_accel_yaw_rad * q.dar_yaw_mult, MultScale),
                 RoundDiv(q.max_accel_roll_rad * q.dar_roll_mult, MultScale))
    ELSE Vector3(q.max_accel_pitch_rad, q.max_accel_yaw_rad, q.max_accel_roll_rad)

Max(a, b) == IF a >= b THEN a ELSE b

Min(a, b) == IF a <= b THEN a ELSE b

\* max(-lim, min(lim, a))
ClampMinMax(a, lim) == Max(-lim, Min(lim, a))

\* mutant: min and max are exchanged,  min(-lim, max(lim, a))
SimClampSwapped(a, lim) ==
    Vector3(Min(-lim.x, Max(lim.x, a.x)),
            Min(-lim.y, Max(lim.y, a.y)),
            Min(-lim.z, Max(lim.z, a.z)))

\* clamp to max acceleration
SimClamp(a, lim) ==
    Vector3(ClampMinMax(a.x, lim.x),
            ClampMinMax(a.y, lim.y),
            ClampMinMax(a.z, lim.z))

\* the acceleration update applies from the state v, dar being self.dar_on
\* as update has just set it
SimAccel(q, v, joy_x, joy_y, air_roll, dar) ==
    SimClamp(SimDemand(SimDesired(q, joy_x, joy_y, air_roll), v), SimMaxAccel(q, dar))

\* per-axis caps: pitch and yaw only
SimAxisCapped(q, u) ==
    Vector3(ClampCopySign(u.x, q.w_max_pitch),
            ClampCopySign(u.y, q.w_max_yaw),
            u.z)

\* the new self.w of update, dar being self.dar_on as update has just set it
SimNewW(q, v, h, joy_x, joy_y, air_roll, dar) ==
    GlobalCapped(q, SimAxisCapped(q,
        Damped(Integrated(v, SimAccel(q, v, joy_x, joy_y, air_roll, dar), h),
               SimStick(q, joy_x, joy_y).eff, DampScale(q, h, dar))))

\* mutant: the step computes with the dar_on stored by the previous call
updateStale(q, v, d, h, joy_x, joy_y, air_roll, handbrake) ==
    [w |-> SimNewW(q, v, h, joy_x, joy_y, air_roll, d),
     dar_on |-> SimDarOn(air_roll, handbrake)]

\* L4PhysicsSimulator.update(dt, joy_x, joy_y, air_roll, handbrake):
\* the new self.w and the new self.dar_on.  The stored self.dar_on (the
\* argument d) is overwritten before it is read.
update(q, v, d, h, joy_x, joy_y, air_roll, handbrake) ==
    [w |-> SimNewW(q, v, h, joy_x, joy_y, air_roll, SimDarOn(air_roll, handbrake)),
     dar_on |-> SimDarOn(air_roll, handbrake)]

----------------------------------------------------------------------------
(* One step of either integrator *)

Impls == {"L4Physics", "L4PhysicsSimulator"}

\* an input sample: the stick, the roll mode and the DAR / handbrake flag
Input(ux, uy, air_roll, dar) ==
    [ux |-> ux, uy |-> uy, air_roll |-> air_roll, dar |-> dar]

\* the DAR flag a call computes with: the argument dar_on of integrate, the
\* self.dar_on that update derives from handbrake and air_roll
StepDar(i, in) ==
    IF i = "L4Physics" THEN in.dar ELSE SimDarOn(in.air_roll, in.dar)

\* mutant: update multiplies the stored limits themselves
AttributesAfterScaled(i, q, dar) ==
    IF dar /\ i = "L4PhysicsSimulator"
    THEN [q EXCEPT !.max_accel_pitch_rad = RoundDiv(@ * q.dar_pitch_mult, MultScale),
                   !.max_accel_yaw_rad = RoundDiv(@ * q.dar_yaw_mult, MultScale),
                   !.max_accel_roll_rad = RoundDiv(@ * q.dar_roll_mult, MultScale)]
    ELSE q

\* the attributes of the object after a call: the limits are copied into
\* locals (max_accel_pitch = self.max_accel_pitch_rad) and the multipliers
\* applied to the locals; no attribute other than self.w and self.dar_on is
\* assigned
AttributesAfter(i, q, dar) == q

\* one call of integrate or update on the object state (v, d)
StepOf(i, q, v, d, h, in) ==
    IF i = "L4Physics"
    THEN [w |-> integrate(q, v, h, in.ux, in.uy, in.dar, in.air_roll),
          dar_on |-> d]
    ELSE update(q, v, d, h, in.ux, in.uy, in.air_roll, in.dar)

\* the attributes after construction
ShippedParams(i) == IF i = "L4Physics" THEN L4Params ELSE SimParams

\* the same attributes with the speed caps set low enough to bind early
TightCaps(q) ==
    [q EXCEPT !.w_max_pitch = 300, !.w_max_yaw = 250, !.w_max_roll = 500,
              !.w_max = 450]

Configs(i) == {ShippedParams(i), TightCaps(ShippedParams(i))}

----------------------------------------------------------------------------
(* Bounds of the model *)

\* number of steps of a free run
MaxFrames == 3

\* tick rates: 60 Hz is the drivers' dt = 1/60, 10 Hz a coarse dt = 0.1
Rates == {60, 10}

\* the input samples a free run draws from: neutral sticks with and without
\* DAR, a stick below the no_stick threshold, full single-axis sticks, a
\* diagonal stick of magnitude > 1, and free-roll mode
Inputs ==
    {Input(0, 0, 0, FALSE), Input(0, 0, 0, TRUE), Input(0, 0, 1, TRUE),
     Input(1, 0, 0, FALSE),
     Input(0, 100, 0, FALSE), Input(100, 0, 0, FALSE), Input(-100, 0, -1, TRUE),
     Input(60, 80, 1, TRUE), Input(100, 100, 0, FALSE),
     Input(100, 0, 2, FALSE), Input(0, -100, 2, TRUE)}

NoInput == Input(0, 0, 0, FALSE)

NoTwin == [on |-> FALSE]

----------------------------------------------------------------------------
(* Free run: a caller steps a fresh integrator with arbitrary inputs *)

Init ==
    /\ impl \in Impls
    /\ p \in Configs(impl)
    /\ hz \in Rates
    /\ w = Zero
    /\ dar_on = FALSE
    /\ inp = NoInput
    /\ prev = Zero
    /\ frame = 0
    /\ drv = [mode |-> "free"]
    /\ twin = NoTwin

\* one call of integrate / update with the input sample in
Step(in) ==
    /\ drv.mode = "free"
    /\ frame < MaxFrames
    /\ \E r \in {StepOf(impl, p, w, dar_on, hz, in)} :
          /\ w' = r.w
          /\ dar_on' = r.dar_on
    /\ p' = AttributesAfter(impl, p, StepDar(impl, in))
    /\ inp' = in
    /\ prev' = w
    /\ frame' = frame + 1
    /\ UNCHANGED <<impl, hz, drv, twin>>

Next == \E in \in Inputs : Step(in)

Spec == Init /\ [][Next]_vars

----------------------------------------------------------------------------
(* Paired run: two objects of the same class stepped side by side *)

\* number of steps of a paired run
MaxPairFrames == 3

\* the same attributes with every acceleration limit scaled to n quarters
ScaledAccel(q, n) ==
    IF "max_accel_pitch_rad" \in DOMAIN q
    THEN [q EXCEPT !.max_accel_pitch = (q.max_accel_pitch * n) \div 4,
                   !.max_accel_yaw = (q.max_accel_yaw * n) \div 4,
                   !.max_accel_roll = (q.max_accel_roll * n) \div 4,
                   !.max_accel_pitch_rad = DegToRad((q.max_accel_pitch * n) \div 4),
                   !.max_accel_yaw_rad = DegToRad((q.max_accel_yaw * n) \div 4),
                   !.max_accel_roll_rad = DegToRad((q.max_accel_roll * n) \div 4)]
    ELSE [q EXCEPT !.max_accel_pitch = (q.max_accel_pitch * n) \div 4,
                   !.max_accel_yaw = (q.max_accel_yaw * n) \div 4,
                   !.max_accel_roll = (q.max_accel_roll * n) \div 4]

\* the second object's attributes: the first's, or the first's with lower
\* acceleration limits
TwinParams(q) == {q, ScaledAccel(q, 1), ScaledAccel(q, 3)}

\* the input samples of a paired run
PairInputs ==
    {Input(0, 0, 0, FALSE), Input(0, 0, 0, TRUE),
     Input(1, 0, 0, FALSE), Input(0, 100, 0, FALSE)}

\* the same sample with the DAR / handbrake flag flipped
DarFlipped(in) == [in EXCEPT !.dar = ~in.dar]

InitPair ==
    /\ impl \in Impls
    /\ p \in Configs(impl)
    /\ hz \in Rates
    /\ w = Zero
    /\ dar_on = FALSE
    /\ inp = NoInput
    /\ prev = Zero
    /\ frame = 0
    /\ drv = [mode |-> "pair", dar_before |-> FALSE]
    /\ \E q \in TwinParams(p) :
          twin = [on |-> TRUE, p |-> q, w |-> Zero, dar_on |-> FALSE,
                  inp |-> NoInput, prev |-> Zero, dar_before |-> FALSE]

\* both objects make one step: the first with the sample in, the second
\* with the same sample or with its DAR flag flipped
StepPair(in, flip) ==
    /\ drv.mode = "pair"
    /\ frame < MaxPairFrames
    /\ \E r \in {StepOf(impl, p, w, dar_on, hz, in)} :
          /\ w' = r.w
          /\ dar_on' = r.dar_on
    /\ inp' = in
    /\ prev' = w
    /\ drv' = [drv EXCEPT !.dar_before = dar_on]
    /\ \E in2 \in {IF flip THEN DarFlipped(in) ELSE in} :
       \E r2 \in {StepOf(impl, twin.p, twin.w, twin.dar_on, hz, in2)} :
          twin' = [twin EXCEPT !.w = r2.w, !.dar_on = r2.dar_on, !.inp = in2,
                               !.prev = twin.w, !.dar_before = twin.dar_on]
    /\ frame' = frame + 1
    /\ UNCHANGED <<impl, p, hz>>

NextPair == \E in \in PairInputs, flip \in BOOLEAN : StepPair(in, flip)

SpecPair == InitPair /\ [][NextPair]_vars

----------------------------------------------------------------------------
(* The two drivers: run_l4_simulation and run_test with main's schedules *)

\* run_l4_simulation: the phases of a run, in seconds
stabilize_duration == 2
input_duration == 5
release_duration == 3
total_duration == stabilize_duration + input_duration + release_duration

\* num_frames = int(total_duration / dt)
num_frames(h) == total_duration * h

\* the tests of test_l4_physics.py: (test_name, dar_on, air_roll_dir)
L4Tests ==
    << [test_name |-> "pitch", dar_on |-> FALSE, air_roll_dir |-> 0],
       [test_name |-> "pitch", dar_on |-> TRUE, air_roll_dir |-> -1],
       [test_name |-> "yaw", dar_on |-> FALSE, air_roll_dir |-> 0],
       [test_name |-> "yaw", dar_on |-> TRUE, air_roll_dir |-> -1],
       [test_name |-> "roll", dar_on |-> FALSE, air_roll_dir |-> 2],
       [test_name |-> "roll", dar_on |-> TRUE, air_roll_dir |-> 2] >>

\* mutant: the release is tested against the input duration alone, so the
\* INPUT block is skipped
L4PhaseNoInput(f, h) ==
    IF f < stabilize_duration * h THEN "STABILIZE"
    ELSE IF f < input_duration * h THEN "INPUT"
    ELSE "RELEASE"

\* the phase of frame f:  time = frame * dt  against the durations
L4Phase(f, h) ==
    IF f < stabilize_duration * h THEN "STABILIZE"
    ELSE IF f < (stabilize_duration + input_duration) * h THEN "INPUT"
    ELSE "RELEASE"

\* the sample run_l4_simulation passes to integrate in phase ph of test tst
L4Sample(tst, ph) ==
    IF ph = "INPUT"
    THEN IF tst.test_name = "pitch"
         THEN Input(0, StickScale, tst.air_roll_dir, tst.dar_on)
         ELSE Input(StickScale, 0, tst.air_roll_dir, tst.dar_on)
    ELSE Input(0, 0, tst.air_roll_dir, tst.dar_on)

\* run_test keeps the time t as a float sum of dt; t is modelled in
\* microseconds, dt = 1/60 being the double just below one sixtieth
Micro == 1000000
TickMicros(h) == Micro \div h

\* run_test(..., 8.0, ...): the duration main passes, in seconds
duration == 8

\* the end of the held input in main's schedules, in seconds
HoldSeconds == 5

\* main's schedules: t -> (joy_x, joy_y, air_roll, handbrake)
pitch_nodar_input(t) ==
    IF t < HoldSeconds * Micro
    THEN Input(StickScale, 0, 0, FALSE) ELSE Input(0, 0, 0, FALSE)

pitch_dar_input(t) ==
    IF t < HoldSeconds * Micro
    THEN Input(StickScale, 0, 0, TRUE) ELSE Input(0, 0, 0, TRUE)

yaw_nodar_input(t) ==
    IF t < HoldSeconds * Micro
    THEN Input(0, StickScale, 0, FALSE) ELSE Input(0, 0, 0, FALSE)

yaw_dar_input(t) ==
    IF t < HoldSeconds * Micro
    THEN Input(0, StickScale, 0, TRUE) ELSE Input(0, 0, 0, TRUE)

roll_nodar_input(t) ==
    IF t < HoldSeconds * Micro
    THEN Input(StickScale, 0, 2, FALSE) ELSE Input(0, 0, 0, FALSE)

roll_dar_input(t) ==
    IF t < HoldSeconds * Micro
    THEN Input(StickScale, 0, 2, TRUE) ELSE Input(0, 0, 0, TRUE)

\* input_fn of main's k-th run_test call
input_fn(k, t) ==
    CASE k = 1 -> pitch_nodar_input(t)
      [] k = 2 -> pitch_dar_input(t)
      [] k = 3 -> yaw_nodar_input(t)
      [] k = 4 -> yaw_dar_input(t)
      [] k = 5 -> roll_nodar_input(t)
      [] k = 6 -> roll_dar_input(t)

SimPhase(t) == IF t < HoldSeconds * Micro THEN "INPUT" ELSE "RELEASE"

\* the recorded rows, summed up: the largest magnitude so far (what
\* analyze_max_velocity returns) and the numbers of INPUT and RELEASE rows
Recorded(d, ph, v) ==
    [d EXCEPT !.phase = ph,
              !.peak = Max(d.peak, length(v)),
              !.held = IF ph = "INPUT" THEN d.held + 1 ELSE d.held,
              !.rel = IF ph = "RELEASE" THEN d.rel + 1 ELSE d.rel]

\* no row has been appended yet
NoRow == [frame |-> -1, time |-> -1]

\* results.append / data.append: the number of rows and the 'frame' and
\* 'time' columns of the row just appended
Appended(d, f, t) ==
    [d EXCEPT !.rows = d.rows + 1, !.row = [frame |-> f, time |-> t]]

InitRun ==
    /\ impl \in Impls
    /\ p = ShippedParams(impl)
    /\ hz = 60
    /\ w = Zero
    /\ dar_on = FALSE
    /\ inp = NoInput
    /\ prev = Zero
    /\ frame = 0
    /\ \E k \in 1..6 :
          drv = [mode |-> "run", test |-> k, t |-> 0, phase |-> "NONE",
                 peak |-> 0, held |-> 0, rel |-> 0,
                 rows |-> 0, row |-> NoRow]
    /\ twin = NoTwin

\* one pass of run_l4_simulation's loop
L4Frame ==
    /\ drv.mode = "run"
    /\ impl = "L4Physics"
    /\ frame < num_frames(hz)
    /\ \E ph \in {L4Phase(frame, hz)} :
       \E in \in {L4Sample(L4Tests[drv.test], ph)} :
       \E r \in {StepOf(impl, p, w, dar_on, hz, in)} :
          /\ w' = r.w
          /\ dar_on' = r.dar_on
          /\ inp' = in
          /\ drv' = Appended(Recorded(drv, ph, r.w), frame, frame * TickMicros(hz))
    /\ prev' = w
    /\ frame' = frame + 1
    /\ UNCHANGED <<impl, p, hz, twin>>

\* one pass of run_test's loop
SimFrame ==
    /\ drv.mode = "run"
    /\ impl = "L4PhysicsSimulator"
    /\ drv.t < duration * Micro
    /\ \E in \in {input_fn(drv.test, drv.t)} :
       \E r \in {StepOf(impl, p, w, dar_on, hz, in)} :
          /\ w' = r.w
          /\ dar_on' = r.dar_on
          /\ inp' = in
          /\ drv' = [Appended(Recorded(drv, SimPhase(drv.t), r.w), frame, drv.t)
                        EXCEPT !.t = drv.t + TickMicros(hz)]
    /\ prev' = w
    /\ frame' = frame + 1
    /\ UNCHANGED <<impl, p, hz, twin>>

NextRun == L4Frame \/ SimFrame

SpecRun == InitRun /\ [][NextRun]_vars

----------------------------------------------------------------------------
(* The acceleration test: test_acceleration of test_acceleration_limits.py, *)
(* whose L4Physics is the class above with the clamped acceleration kept in *)
(* self.last_accel                                                          *)

\* tests of test_acceleration_limits.py: (axis, dar_on, air_roll)
AccelTests ==
    << [axis_name |-> "pitch", dar_on |-> FALSE, air_roll |-> 0],
       [axis_name |-> "pitch", dar_on |-> TRUE, air_roll |-> -1],
       [axis_name |-> "yaw", dar_on |-> FALSE, air_roll |-> 0],
       [axis_name |-> "yaw", dar_on |-> TRUE, air_roll |-> -1],
       [axis_name |-> "roll", dar_on |-> FALSE, air_roll |-> 2],
       [axis_name |-> "roll", dar_on |-> TRUE, air_roll |-> 2] >>

\* the stick test_acceleration sets for the tested axis
AccelSample(tst) ==
    IF tst.axis_name = "pitch"
    THEN Input(0, StickScale, tst.air_roll, tst.dar_on)
    ELSE Input(StickScale, 0, tst.air_roll, tst.dar_on)

\* l4_accel = abs(l4.last_accel.<axis>)
AxisAccel(tst, a) ==
    IF tst.axis_name = "pitch" THEN Abs(a.x)
    ELSE IF tst.axis_name = "yaw" THEN Abs(a.y)
    ELSE Abs(a.z)

InitAccel ==
    /\ impl = "L4Physics"
    /\ p = L4Params
    /\ hz = 60
    /\ w = Zero
    /\ dar_on = FALSE
    /\ inp = NoInput
    /\ prev = Zero
    /\ frame = 0
    /\ \E k \in 1..6 :
          drv = [mode |-> "accel", test |-> k, last_accel |-> Zero, l4_accel |-> 0]
    /\ twin = NoTwin

\* test_acceleration: a fresh L4Physics makes one step with the full stick of
\* the tested axis and the applied acceleration is read back
test_acceleration ==
    /\ drv.mode = "accel"
    /\ frame = 0
    /\ \E in \in {AccelSample(AccelTests[drv.test])} :
       \E a \in {L4Accel(p, w, in.ux, in.uy, in.dar, in.air_roll)} :
          /\ w' = integrate(p, w, hz, in.ux, in.uy, in.dar, in.air_roll)
          /\ inp' = in
          /\ drv' = [drv EXCEPT !.last_accel = a,
                                !.l4_accel = AxisAccel(AccelTests[drv.test], a)]
    /\ prev' = w
    /\ frame' = frame + 1
    /\ UNCHANGED <<impl, p, hz, dar_on, twin>>

\* every driver of the repository
InitDrivers == InitRun \/ InitAccel

NextDrivers == NextRun \/ test_acceleration

SpecDrivers == InitDrivers /\ [][NextDrivers]_vars

----------------------------------------------------------------------------
(* Configured run: a caller constructs an integrator, may overwrite         *)
(* attributes of the object before the first step (neither __init__ takes   *)
(* an argument), and then steps it                                          *)

\* number of steps of a configured run
MaxCfgFrames == 3

\* self.w_max_roll set below the global cap self.w_max
RollCapped(q) == [q EXCEPT !.w_max_roll = 500]

\* self.brake_on_release set to 1.0
Braked(q) == [q EXCEPT !.brake_on_release = 100]

\* self.damp set to -2.96
NegativeDamp(q) == [q EXCEPT !.damp = -296]

\* the pitch acceleration limit set to 0 (self.max_accel_pitch, and the
\* self.max_accel_pitch_rad that L4PhysicsSimulator.__init__ derives from it)
ZeroAccel(i, q) ==
    IF i = "L4Physics"
    THEN [q EXCEPT !.max_accel_pitch = 0]
    ELSE [q EXCEPT !.max_accel_pitch = 0, !.max_accel_pitch_rad = 0]

\* the attribute assignments a configured run draws from
Assignments(i) ==
    {RollCapped(ShippedParams(i)), Braked(ShippedParams(i)),
     NegativeDamp(ShippedParams(i)), ZeroAccel(i, ShippedParams(i))}

\* the input samples a configured run draws from: neutral sticks with and
\* without DAR, a full vertical stick, free roll with and without the
\* handbrake, DAR roll right, and a stick of magnitude 3
CfgInputs ==
    {Input(0, 0, 0, FALSE), Input(0, 0, 0, TRUE),
     Input(0, 100, 0, FALSE),
     Input(100, 0, 2, FALSE), Input(100, 0, 2, TRUE),
     Input(0, 0, 1, TRUE),
     Input(300, 3, 0, FALSE)}

\* obj = L4Physics() / obj = L4PhysicsSimulator()
InitCfg ==
    /\ impl \in Impls
    /\ p = ShippedParams(impl)
    /\ hz \in Rates
    /\ w = Zero
    /\ dar_on = FALSE
    /\ inp = NoInput
    /\ prev = Zero
    /\ frame = 0
    /\ drv = [mode |-> "cfg"]
    /\ twin = NoTwin

\* obj.<attribute> = <value> on the fresh object: nothing is checked
Configure(q) ==
    /\ drv.mode = "cfg"
    /\ frame = 0
    /\ p = ShippedParams(impl)
    /\ p' = q
    /\ UNCHANGED <<impl, hz, w, dar_on, inp, prev, frame, drv, twin>>

\* one call of integrate / update with the input sample in
StepCfg(in) ==
    /\ drv.mode = "cfg"
    /\ frame < MaxCfgFrames
    /\ \E r \in {StepOf(impl, p, w, dar_on, hz, in)} :
          /\ w' = r.w
          /\ dar_on' = r.dar_on
    /\ inp' = in
    /\ prev' = w
    /\ frame' = frame + 1
    /\ UNCHANGED <<impl, p, hz, drv, twin>>

NextCfg ==
    \/ \E q \in Assignments(impl) : Configure(q)
    \/ \E in \in CfgInputs : StepCfg(in)

SpecCfg == InitCfg /\ [][NextCfg]_vars

----------------------------------------------------------------------------
(* Session: the main block of either script calls its driver once per      *)
(* test, one call after the other; every call constructs its own object    *)

\* number of driver calls of a session
MaxRuns == 2

\* the sample the driver passes to the integrator at frame f of test k
RunInput(i, k, f, h) ==
    IF i = "L4Physics" THEN L4Sample(L4Tests[k], L4Phase(f, h))
    ELSE input_fn(k, f * TickMicros(h))

\* the driver's loop condition at frame f
RunGoesOn(i, f, h) ==
    IF i = "L4Physics" THEN f < num_frames(h)
    ELSE f * TickMicros(h) < duration * Micro

\* the phase label of the row of frame f
RunPhase(i, f, h) ==
    IF i = "L4Physics" THEN L4Phase(f, h) ELSE SimPhase(f * TickMicros(h))

\* a driver call of test k about to enter its loop: calls is the number of
\* calls made so far, before the test of the previous call (0: none)
CallOf(k, calls, before) ==
    [mode |-> "session", test |-> k, t |-> 0, phase |-> "NONE",
     peak |-> 0, held |-> 0, rel |-> 0, rows |-> 0, row |-> NoRow,
     calls |-> calls, before |-> before]

\* an object of the class just constructed, as the run of a test alone
\* starts from
Fresh == [on |-> TRUE, w |-> Zero, dar_on |-> FALSE]

\* the first call of main; twin is the object of the same test run alone,
\* stepped with the same samples
InitSession ==
    /\ impl \in Impls
    /\ p = ShippedParams(impl)
    /\ hz = 60
    /\ w = Zero
    /\ dar_on = FALSE
    /\ inp = NoInput
    /\ prev = Zero
    /\ frame = 0
    /\ \E k \in 1..6 : drv = CallOf(k, 1, 0)
    /\ twin = Fresh

\* one pass of the driver's loop (run_l4_simulation or run_test)
SessionFrame ==
    /\ drv.mode = "session"
    /\ RunGoesOn(impl, frame, hz)
    /\ \E in \in {RunInput(impl, drv.test, frame, hz)} :
       \E r \in {StepOf(impl, p, w, dar_on, hz, in)} :
       \E a \in {StepOf(impl, ShippedParams(impl), twin.w, twin.dar_on, hz, in)} :
          /\ w' = r.w
          /\ dar_on' = r.dar_on
          /\ inp' = in
          /\ drv' = [Appended(Recorded(drv, RunPhase(impl, frame, hz), r.w),
                              frame, frame * TickMicros(hz))
                        EXCEPT !.t = (frame + 1) * TickMicros(hz)]
          /\ twin' = [on |-> TRUE, w |-> a.w, dar_on |-> a.dar_on]
    /\ prev' = w
    /\ frame' = frame + 1
    /\ UNCHANGED <<impl, p, hz>>

\* mutant: the next call goes on with the object of the previous call
NextCallSameObject(k) ==
    /\ drv.mode = "session"
    /\ drv.calls < MaxRuns
    /\ ~RunGoesOn(impl, frame, hz)
    /\ inp' = NoInput
    /\ prev' = Zero
    /\ frame' = 0
    /\ drv' = CallOf(k, drv.calls + 1, drv.test)
    /\ twin' = Fresh
    /\ UNCHANGED <<impl, p, hz, w, dar_on>>

\* the previous call has returned and main calls the driver for test k:
\* l4 = L4Physics() / sim = L4PhysicsSimulator(), results = [] / data = []
NextCall(k) ==
    /\ drv.mode = "session"
    /\ drv.calls < MaxRuns
    /\ ~RunGoesOn(impl, frame, hz)
    /\ p' = ShippedParams(impl)
    /\ w' = Zero
    /\ dar_on' = FALSE
    /\ inp' = NoInput
    /\ prev' = Zero
    /\ frame' = 0
    /\ drv' = CallOf(k, drv.calls + 1, drv.test)
    /\ twin' = Fresh
    /\ UNCHANGED <<impl, hz>>

NextSession ==
    \/ SessionFrame
    \/ \E k \in 1..6 : NextCall(k)

SpecSession == InitSession /\ [][NextSession]_vars

----------------------------------------------------------------------------
(* TornadoSpinMeasurementBot: the phase machine of get_output.            *)
(* Times are in half seconds; every timer is kept as its age, the time    *)
(* since time.time() was stored in it, or NoTime while it is None.        *)

NoTime == -1

\* len(self.stick_angles): range(5) appends 0, 22.5, 45, 67.5, 90
NumAngles == 5

\* len(self.stick_magnitudes)
NumMagnitudes == 5

\* 2.0 s
game_start_wait_duration == 4
\* 0.5 s
post_teleport_wait_duration == 1
\* 5.0 s
stabilization_min_duration == 10
\* 0.5 s
stability_check_interval == 1
\* 1.5 s
spinup_duration == 3
\* 3.0 s
measurement_duration == 6

\* the literal 15.0 s of the two stabilisation timeouts
StabilizationTimeout == 30

\* ages beyond every threshold are indistinguishable to the comparisons
MaxAge == StabilizationTimeout + 1

\* a car as the checks of the bots read it, in thousandths: pitch and roll
\* in rad, the norm of the angular velocity in rad/s, the speed in uu/s
Car(pitch, roll, ang_vel, vel) ==
    [pitch |-> pitch, roll |-> roll, ang_vel |-> ang_vel, vel |-> vel]

\* math.pi in thousandths
BotPi == 3142

\* the cars the packets carry: level and at rest, pitched or rolled to the
\* level limit, rolled close to half a turn, turning, moving
Cars ==
    {Car(0, 0, 0, 0), Car(50, 0, 0, 0), Car(0, -50, 0, 0),
     Car(0, 3100, 0, 0), Car(0, 0, 100, 0), Car(0, 0, 0, 10000)}

\* abs(pitch) < 0.05 and abs(roll) < 0.05
is_level(car) == Abs(car.pitch) < 50 /\ Abs(car.roll) < 50

is_car_stable(car) ==
    /\ is_level(car)
    /\ car.ang_vel < 100
    /\ car.vel < 10000

\* the roll brought into [-pi, pi]
NormalisedRoll(roll) ==
    IF roll > BotPi THEN roll - 2 * BotPi
    ELSE IF roll < -BotPi THEN roll + 2 * BotPi
    ELSE roll

\* abs(abs(roll) - math.pi) < 0.087
NearOpposite(car) == Abs(Abs(NormalisedRoll(car.roll)) - BotPi) < 87

\* what one call of get_output sees of the game and of the clock: whether
\* the round is active, the bot's car, and how much time has passed since
\* the last call
Packets == [active : BOOLEAN, car : Cars, dt : {0, 1}]

\* TornadoSpinMeasurementBot.__init__; windows counts the measurement
\* windows started (the "Starting measurement" log lines), measurements is
\* len(self.all_measurements), analyses the calls of analyze_and_save
NewBot ==
    [mode |-> "bot",
     waiting_for_game_start |-> TRUE, game_started |-> FALSE,
     game_start_wait_time |-> NoTime,
     current_angle_index |-> 0, current_mag_index |-> 0,
     setup_complete |-> FALSE, post_teleport_wait |-> FALSE,
     stabilizing |-> FALSE, spinning_up |-> FALSE, measuring |-> FALSE,
     post_measurement_stabilizing |-> FALSE,
     phase_start |-> NoTime, last_stability_check |-> NoTime,
     start_nose_pos |-> FALSE, found_opposite |-> FALSE,
     opposite_nose_pos |-> FALSE,
     windows |-> 0, measurements |-> 0,
     analyses |-> 0, analysis_complete |-> FALSE,
     elapsed |-> NoTime, controls |-> "none",
     raised |-> FALSE, fell_through |-> FALSE, stopped |-> FALSE]

\* a timer's age after dt more half seconds
Older(t, dt) ==
    IF t = NoTime THEN NoTime
    ELSE IF t + dt > MaxAge THEN MaxAge ELSE t + dt

\* the clock moved on by dt between two calls of get_output; the call has
\* computed no elapsed time and set no control yet
Aged(d, dt) ==
    [d EXCEPT !.game_start_wait_time = Older(@, dt),
              !.phase_start = Older(@, dt),
              !.last_stability_check = Older(@, dt),
              !.elapsed = NoTime, !.controls = "neutral"]

get_current_phase_name(d) ==
    IF ~d.setup_complete THEN "SETUP"
    ELSE IF d.post_teleport_wait THEN "POST_TELEPORT_WAIT"
    ELSE IF d.stabilizing THEN "STABILIZING"
    ELSE IF d.spinning_up THEN "SPINNING_UP"
    ELSE IF d.measuring THEN "MEASURING"
    ELSE IF d.post_measurement_stabilizing THEN "POST_MEASUREMENT_STABILIZING"
    ELSE "UNKNOWN"

\* Phase 0: wait for the round to be active, then two more seconds
WaitForGameStart(d, pkt) ==
    IF ~pkt.active THEN d
    ELSE LET t == IF d.game_start_wait_time = NoTime
                  THEN 0 ELSE d.game_start_wait_time
         IN  IF t >= game_start_wait_duration
             THEN [d EXCEPT !.game_start_wait_time = t,
                            !.waiting_for_game_start = FALSE,
                            !.game_started = TRUE]
             ELSE [d EXCEPT !.game_start_wait_time = t]

\* all angles done: analyze_and_save runs once
AllComplete(d) ==
    IF d.analysis_complete THEN d
    ELSE [d EXCEPT !.analyses = @ + 1, !.analysis_complete = TRUE]

\* Phase 1: teleport_to_center
Setup(d) ==
    [d EXCEPT !.setup_complete = TRUE, !.post_teleport_wait = TRUE,
              !.phase_start = 0]

\* Phase 1.5: wait for the teleport to settle
PostTeleportWait(d) ==
    IF d.phase_start >= post_teleport_wait_duration
    THEN [d EXCEPT !.post_teleport_wait = FALSE, !.stabilizing = TRUE,
                   !.elapsed = d.phase_start, !.controls = "level",
                   !.phase_start = 0, !.last_stability_check = NoTime]
    ELSE [d EXCEPT !.elapsed = d.phase_start, !.controls = "level"]

\* whether this call of a stabilisation phase runs the stability check
ChecksStability(d) ==
    /\ d.phase_start >= stabilization_min_duration
    /\ \/ d.last_stability_check = NoTime
       \/ d.last_stability_check >= stability_check_interval

\* a stabilisation phase computes elapsed, applies the levelling input and,
\* when a check is due, stores the time of the check
Checked(d) ==
    [d EXCEPT !.elapsed = d.phase_start, !.controls = "level",
              !.last_stability_check =
                  IF ChecksStability(d) THEN 0 ELSE @]

\* the stability check of this call passes
FoundStable(d, pkt) == ChecksStability(d) /\ is_car_stable(pkt.car)

\* the literal 15.0 s timeout of this call has run out
TimedOut(d) == d.phase_start > StabilizationTimeout

\* Phase 2: pre-measurement stabilisation
Stabilizing(d, pkt) ==
    IF FoundStable(d, pkt) \/ TimedOut(d)
    THEN [Checked(d) EXCEPT !.stabilizing = FALSE, !.spinning_up = TRUE,
                            !.phase_start = 0]
    ELSE Checked(d)

\* Phase 2.5: spin up
SpinningUp(d) ==
    IF d.phase_start < spinup_duration
    THEN [d EXCEPT !.elapsed = d.phase_start, !.controls = "spin"]
    ELSE [d EXCEPT !.elapsed = d.phase_start,
                   !.spinning_up = FALSE, !.measuring = TRUE,
                   !.phase_start = 0, !.windows = @ + 1,
                   !.start_nose_pos = FALSE, !.found_opposite = FALSE,
                   !.opposite_nose_pos = FALSE]

track_nose_position(d, pkt) ==
    IF ~d.start_nose_pos THEN [d EXCEPT !.start_nose_pos = TRUE]
    ELSE IF ~d.found_opposite /\ NearOpposite(pkt.car)
         THEN [d EXCEPT !.opposite_nose_pos = TRUE, !.found_opposite = TRUE]
         ELSE d

\* the end of a measurement whose two nose positions were captured
MeasurementStored(d) ==
    [d EXCEPT !.measuring = FALSE, !.measurements = @ + 1,
              !.post_measurement_stabilizing = TRUE,
              !.phase_start = 0, !.last_stability_check = NoTime]

\* the end of a measurement without both nose positions: the warning
\* formats the locals angle and mag, which this path has not assigned, so
\* the call raises UnboundLocalError after self.measuring = False and
\* returns no controls; goes_on tells whether the framework calls again
MeasurementFailed(d, goes_on) ==
    [d EXCEPT !.measuring = FALSE, !.raised = TRUE, !.controls = "none",
              !.stopped = ~goes_on]

\* Phase 3: measure
Measuring(d, pkt, goes_on) ==
    LET e == [d EXCEPT !.elapsed = d.phase_start]
    IN  IF d.phase_start < measurement_duration
        THEN track_nose_position([e EXCEPT !.controls = "spin"], pkt)
        ELSE IF d.start_nose_pos /\ d.opposite_nose_pos
             THEN MeasurementStored(e)
             ELSE MeasurementFailed(e, goes_on)

\* the next magnitude, then the next angle
Advanced(d) ==
    LET wrap == d.current_mag_index + 1 >= NumMagnitudes
    IN  [d EXCEPT !.current_mag_index = IF wrap THEN 0 ELSE @ + 1,
                  !.current_angle_index = IF wrap THEN @ + 1 ELSE @]

\* move to the next measurement and reset the flags; only the branch of
\* the passed stability check also clears the stored times
NextMeasurement(d, stable) ==
    [Advanced(d) EXCEPT
        !.post_measurement_stabilizing = FALSE,
        !.setup_complete = FALSE, !.post_teleport_wait = FALSE,
        !.stabilizing = FALSE, !.spinning_up = FALSE,
        !.measuring = FALSE,
        !.start_nose_pos = FALSE, !.found_opposite = FALSE,
        !.opposite_nose_pos = FALSE,
        !.phase_start = IF stable THEN NoTime ELSE @,
        !.last_stability_check = IF stable THEN NoTime ELSE @]

\* Phase 4 without the return of the stable branch: a check that passes on
\* the tick of the timeout advances twice
PostMeasurementStabilizingNoReturn(d, pkt) ==
    IF FoundStable(d, pkt)
    THEN IF TimedOut(d)
         THEN NextMeasurement(NextMeasurement(Checked(d), TRUE), FALSE)
         ELSE NextMeasurement(Checked(d), TRUE)
    ELSE IF TimedOut(d) THEN NextMeasurement(Checked(d), FALSE)
    ELSE Checked(d)

\* Phase 4: post-measurement stabilisation
PostMeasurementStabilizing(d, pkt) ==
    IF FoundStable(d, pkt) THEN NextMeasurement(Checked(d), TRUE)
    ELSE IF TimedOut(d) THEN NextMeasurement(Checked(d), FALSE)
    ELSE Checked(d)

\* the final else of the phase chain: "this should NOT happen"
FellThrough(d) == [d EXCEPT !.fell_through = TRUE]

\* the body of get_output on the bot d, whose timers are already aged
PhaseChain(d, pkt, goes_on) ==
    IF d.waiting_for_game_start THEN WaitForGameStart(d, pkt)
    ELSE IF d.current_angle_index >= NumAngles THEN AllComplete(d)
    ELSE IF ~d.setup_complete THEN Setup(d)
    ELSE IF d.post_teleport_wait THEN PostTeleportWait(d)
    ELSE IF d.stabilizing THEN Stabilizing(d, pkt)
    ELSE IF d.spinning_up THEN SpinningUp(d)
    ELSE IF d.measuring THEN Measuring(d, pkt, goes_on)
    ELSE IF d.post_measurement_stabilizing
         THEN PostMeasurementStabilizing(d, pkt)
    ELSE FellThrough(d)

\* the other variables of a bot run: inp is the car of the last packet
BotRun(agent) ==
    /\ impl = agent
    /\ p = ShippedParams("L4Physics")
    /\ hz = 60
    /\ w = Zero
    /\ dar_on = FALSE
    /\ inp = Car(0, 0, 0, 0)
    /\ prev = Zero
    /\ frame = 0
    /\ twin = NoTwin

InitBot ==
    /\ BotRun("TornadoSpinMeasurementBot")
    /\ drv = NewBot

\* one call of get_output by the framework
get_output(pkt, goes_on) ==
    /\ drv.mode = "bot"
    /\ ~drv.stopped
    /\ drv' = PhaseChain(Aged(drv, pkt.dt), pkt, goes_on)
    /\ inp' = pkt.car
    /\ UNCHANGED <<impl, p, hz, w, dar_on, prev, frame, twin>>

NextBot == \E pkt \in Packets, goes_on \in BOOLEAN : get_output(pkt, goes_on)

SpecBot == InitBot /\ [][NextBot]_vars

\* a call of get_output in an active round after the clock has moved on
ActiveTick ==
    \E pkt \in Packets, goes_on \in BOOLEAN :
        pkt.active /\ pkt.dt = 1 /\ get_output(pkt, goes_on)

\* the framework keeps calling get_output while the round is active and
\* the wall clock advances
SpecBotLive == SpecBot /\ WF_vars(ActiveTick)

----------------------------------------------------------------------------
(* The archived TornadoSpinMeasurementBot (analysis-archive/               *)
(* tornado_spin_measurement_bot.py): teleport, level, spin up, measure.    *)

\* len(self.stick_magnitudes) of the archived bot: [0.10, 1.0]
ArchivedMagnitudes == 2

\* the literal 2.0 s a levelling round lasts before the level check
LevelCheckAfter == 4

\* the archived bot after __init__; flat_dist tells whether the Vector3 of
\* the installed framework has the method the bot calls on it
ArchivedBot(flat_dist) ==
    [mode |-> "archived", game_started |-> FALSE,
     current_angle_index |-> 0, current_mag_index |-> 0,
     setup_complete |-> FALSE, leveling |-> FALSE,
     level_start_time |-> NoTime,
     spinning_up |-> FALSE, measuring |-> FALSE, phase_start |-> NoTime,
     start_nose_pos |-> FALSE, found_opposite |-> FALSE,
     opposite_nose_pos |-> FALSE,
     windows |-> 0, measurements |-> 0,
     analyses |-> 0, analysis_complete |-> FALSE,
     leveled_for |-> NoTime, controls |-> "none",
     raised |-> FALSE, stopped |-> FALSE, flat_dist |-> flat_dist]

\* the clock moved on by dt between two calls
AgedArchived(d, dt) ==
    [d EXCEPT !.level_start_time = Older(@, dt),
              !.phase_start = Older(@, dt),
              !.leveled_for = NoTime, !.controls = "neutral"]

\* Phase 1 of the archived bot: teleport and start levelling
ArchivedSetup(d) ==
    [d EXCEPT !.setup_complete = TRUE, !.leveling = TRUE,
              !.level_start_time = 0]

\* Phase 2 with a level check that looks at the pitch only
LevelingPitchOnly(d, car) ==
    IF d.level_start_time > LevelCheckAfter
    THEN IF Abs(car.pitch) < 50
         THEN [d EXCEPT !.leveling = FALSE, !.spinning_up = TRUE,
                        !.phase_start = 0,
                        !.leveled_for = d.level_start_time]
         ELSE [d EXCEPT !.level_start_time = 0, !.controls = "level"]
    ELSE [d EXCEPT !.controls = "level"]

\* Phase 2: after more than 2 s of levelling a level car ends the phase,
\* any other car restarts the 2 s; leveled_for is the time the check saw
Leveling(d, car) ==
    IF d.level_start_time > LevelCheckAfter
    THEN IF is_level(car)
         THEN [d EXCEPT !.leveling = FALSE, !.spinning_up = TRUE,
                        !.phase_start = 0,
                        !.leveled_for = d.level_start_time]
         ELSE [d EXCEPT !.level_start_time = 0, !.controls = "level"]
    ELSE [d EXCEPT !.controls = "level"]

\* Phase 3 of the archived bot: spin up
ArchivedSpinningUp(d) ==
    IF d.phase_start < spinup_duration THEN [d EXCEPT !.controls = "spin"]
    ELSE [d EXCEPT !.spinning_up = FALSE, !.measuring = TRUE,
                   !.phase_start = 0, !.windows = @ + 1,
                   !.start_nose_pos = FALSE, !.found_opposite = FALSE,
                   !.opposite_nose_pos = FALSE]

\* "Move to next measurement" and "Reset for next measurement"
ArchivedAdvanced(d) ==
    LET wrap == d.current_mag_index + 1 >= ArchivedMagnitudes
    IN  [d EXCEPT !.current_mag_index = IF wrap THEN 0 ELSE @ + 1,
                  !.current_angle_index = IF wrap THEN @ + 1 ELSE @,
                  !.setup_complete = FALSE]

\* the call raised after self.measuring = False: AttributeError from
\* flat_dist on a captured pair, UnboundLocalError from the warning that
\* formats the unassigned locals angle and mag on a failed capture
ArchivedRaised(d, goes_on) ==
    [d EXCEPT !.measuring = FALSE, !.raised = TRUE, !.controls = "none",
              !.stopped = ~goes_on]

\* Phase 4 of the archived bot: measure, store, advance
ArchivedMeasuring(d, pkt, goes_on) ==
    IF d.phase_start < measurement_duration
    THEN track_nose_position([d EXCEPT !.controls = "spin"], pkt)
    ELSE IF d.start_nose_pos /\ d.opposite_nose_pos /\ d.flat_dist
         THEN ArchivedAdvanced([d EXCEPT !.measuring = FALSE,
                                         !.measurements = @ + 1])
         ELSE ArchivedRaised(d, goes_on)

\* the body of the archived get_output after the wait for the round
ArchivedPhases(d, pkt, goes_on) ==
    IF d.current_angle_index >= NumAngles THEN AllComplete(d)
    ELSE IF ~d.setup_complete THEN ArchivedSetup(d)
    ELSE IF d.leveling THEN Leveling(d, pkt.car)
    ELSE IF d.spinning_up THEN ArchivedSpinningUp(d)
    ELSE IF d.measuring THEN ArchivedMeasuring(d, pkt, goes_on)
    ELSE d

\* the archived get_output: the call that sees the round become active
\* goes on into the phases
ArchivedChain(d, pkt, goes_on) ==
    IF ~d.game_started /\ ~pkt.active THEN d
    ELSE ArchivedPhases([d EXCEPT !.game_started = TRUE], pkt, goes_on)

InitArchived ==
    /\ BotRun("ArchivedTornadoSpinMeasurementBot")
    /\ \E flat_dist \in BOOLEAN : drv = ArchivedBot(flat_dist)

\* one call of the archived get_output by the framework
archived_get_output(pkt, goes_on) ==
    /\ drv.mode = "archived"
    /\ ~drv.stopped
    /\ drv' = ArchivedChain(AgedArchived(drv, pkt.dt), pkt, goes_on)
    /\ inp' = pkt.car
    /\ UNCHANGED <<impl, p, hz, w, dar_on, prev, frame, twin>>

NextArchived ==
    \E pkt \in Packets, goes_on \in BOOLEAN : archived_get_output(pkt, goes_on)

SpecArchived == InitArchived /\ [][NextArchived]_vars

\* both versions of the tornado bot
InitTornado == InitBot \/ InitArchived

NextTornado == NextBot \/ NextArchived

SpecTornado == InitTornado /\ [][NextTornado]_vars

----------------------------------------------------------------------------
(* Diagonal_Measurement_Bot: wait, teleport, settle, stabilise, measure.   *)

\* len(self.test_angles)
DiagonalAngles == 5

\* len(self.test_magnitudes)
DiagonalMagnitudes == 1

\* the literal 2.0 s after the round became active
DiagonalStartWait == 4

\* the literal 0.5 s after the teleport
DiagonalSettle == 1

\* self.stabilization_duration = 3.0
stabilization_duration == 6

\* self.measurement_duration = 5.0 of the diagonal bot
diagonal_measurement_duration == 10

\* Diagonal_Measurement_Bot.__init__; current_test_data is kept as the set
\* of tests whose samples it holds, measurement_data as the sequence of
\* tests whose samples were added to it, saves counts the calls of save_data
DiagonalBot ==
    [mode |-> "diagonal", waiting_for_game |-> TRUE,
     game_start_wait_time |-> NoTime,
     current_angle_idx |-> 0, current_mag_idx |-> 0,
     setup_complete |-> FALSE, post_teleport_wait |-> FALSE,
     stabilizing |-> FALSE, measuring |-> FALSE, phase_start |-> NoTime,
     current_test_data |-> {}, measurement_data |-> << >>,
     saves |-> 0, save_complete |-> FALSE,
     elapsed |-> NoTime, controls |-> "none"]

\* the clock moved on by dt between two calls
AgedDiagonal(d, dt) ==
    [d EXCEPT !.game_start_wait_time = Older(@, dt),
              !.phase_start = Older(@, dt),
              !.elapsed = NoTime, !.controls = "neutral"]

\* the number of the current test
TestNumber(d) ==
    d.current_angle_idx * DiagonalMagnitudes + d.current_mag_idx

\* Phase: wait for the round, then more than 2 s
DiagonalWait(d, pkt) ==
    IF ~pkt.active THEN d
    ELSE LET t == IF d.game_start_wait_time = NoTime
                  THEN 0 ELSE d.game_start_wait_time
         IN  [d EXCEPT !.game_start_wait_time = t,
                       !.waiting_for_game =
                           ~(t > DiagonalStartWait)]

\* all tests complete: save_data runs once
DiagonalComplete(d) ==
    IF d.save_complete THEN d
    ELSE [d EXCEPT !.saves = @ + 1, !.save_complete = TRUE]

\* Phase: setup without the reset of current_test_data
DiagonalSetupKeepsData(d) ==
    [d EXCEPT !.setup_complete = TRUE, !.post_teleport_wait = TRUE,
              !.phase_start = 0]

\* Phase: setup, teleport to the arena centre
DiagonalSetup(d) ==
    [d EXCEPT !.setup_complete = TRUE, !.post_teleport_wait = TRUE,
              !.phase_start = 0, !.current_test_data = {}]

\* Phase: wait for the physics to settle after the teleport
DiagonalPostTeleport(d) ==
    IF d.phase_start > DiagonalSettle
    THEN [d EXCEPT !.post_teleport_wait = FALSE, !.stabilizing = TRUE,
                   !.elapsed = d.phase_start, !.phase_start = 0,
                   !.controls = "level"]
    ELSE [d EXCEPT !.elapsed = d.phase_start, !.controls = "level"]

\* Phase: stabilisation for a fixed time
DiagonalStabilizing(d) ==
    IF d.phase_start > stabilization_duration
    THEN [d EXCEPT !.stabilizing = FALSE, !.measuring = TRUE,
                   !.elapsed = d.phase_start, !.phase_start = 0,
                   !.controls = "level"]
    ELSE [d EXCEPT !.elapsed = d.phase_start, !.controls = "level"]

\* "Advance to next test"
DiagonalAdvanced(d) ==
    LET wrap == d.current_mag_idx + 1 >= DiagonalMagnitudes
    IN  [d EXCEPT !.current_mag_idx = IF wrap THEN 0 ELSE @ + 1,
                  !.current_angle_idx = IF wrap THEN @ + 1 ELSE @,
                  !.setup_complete = FALSE, !.measuring = FALSE]

RECURSIVE extend(_, _)
\* list.extend: the tests whose samples data_set holds are added to the
\* tests whose samples data already holds, in the order of the samples
extend(data, data_set) ==
    IF data_set = {} THEN data
    ELSE LET first == CHOOSE x \in data_set : \A y \in data_set : x <= y
         IN  extend(Append(data, first), data_set \ {first})

\* Phase: measurement; every call appends a sample, the call after more
\* than 5 s also moves the samples into measurement_data and advances
DiagonalMeasuring(d) ==
    LET e == [d EXCEPT !.elapsed = d.phase_start, !.controls = "spin",
                       !.current_test_data = @ \cup {TestNumber(d)}]
    IN  IF d.phase_start > diagonal_measurement_duration
        THEN DiagonalAdvanced(
                 [e EXCEPT !.measurement_data =
                               extend(@, e.current_test_data)])
        ELSE e

\* the body of Diagonal_Measurement_Bot.get_output
DiagonalChain(d, pkt) ==
    IF d.waiting_for_game THEN DiagonalWait(d, pkt)
    ELSE IF d.current_angle_idx >= DiagonalAngles THEN DiagonalComplete(d)
    ELSE IF ~d.setup_complete THEN DiagonalSetup(d)
    ELSE IF d.post_teleport_wait THEN DiagonalPostTeleport(d)
    ELSE IF d.stabilizing THEN DiagonalStabilizing(d)
    ELSE IF d.measuring THEN DiagonalMeasuring(d)
    ELSE d

InitDiagonal ==
    /\ BotRun("Diagonal_Measurement_Bot")
    /\ drv = DiagonalBot

\* one call of Diagonal_Measurement_Bot.get_output by the framework
diagonal_get_output(pkt) ==
    /\ drv.mode = "diagonal"
    /\ drv' = DiagonalChain(AgedDiagonal(drv, pkt.dt), pkt)
    /\ inp' = pkt.car
    /\ UNCHANGED <<impl, p, hz, w, dar_on, prev, frame, twin>>

NextDiagonal == \E pkt \in Packets : diagonal_get_output(pkt)

SpecDiagonal == InitDiagonal /\ [][NextDiagonal]_vars

----------------------------------------------------------------------------
(* FennecCenterOfMassMultiAxis: teleport, level, rotate about one axis for *)
(* 5 s, for pitch, yaw and roll in turn.                                   *)

\* self.test_duration = 5.0
test_duration == 10

\* FennecCenterOfMassMultiAxis.__init__; data_points and all_data[axis] are
\* kept as the set of axes under which their samples were recorded;
\* teleports, levelings and analyses count the calls of teleport_to_center,
\* the "Car leveled" transitions and the calls of analyze_and_save
FennecBot ==
    [mode |-> "fennec", test_start_time |-> NoTime,
     data_points |-> {}, test_complete |-> FALSE,
     setup_complete |-> FALSE, leveling |-> FALSE,
     level_start_time |-> NoTime,
     current_axis |-> "pitch", axes_complete |-> << >>,
     all_data |-> [axis \in {"pitch", "yaw", "roll"} |-> {}],
     teleports |-> 0, levelings |-> 0, analyses |-> 0,
     leveled_for |-> NoTime, controls |-> "none"]

\* the clock moved on by dt between two calls
AgedFennec(d, dt) ==
    [d EXCEPT !.level_start_time = Older(@, dt),
              !.test_start_time = Older(@, dt),
              !.leveled_for = NoTime, !.controls = "neutral"]

\* Phase 1 of the Fennec bot: teleport and start levelling
FennecSetup(d) ==
    [d EXCEPT !.setup_complete = TRUE, !.leveling = TRUE,
              !.level_start_time = 0, !.teleports = @ + 1]

\* Phase 2: after more than 2 s of levelling a level car starts the test,
\* any other car restarts the 2 s
FennecLeveling(d, car) ==
    IF d.level_start_time > LevelCheckAfter
    THEN IF is_level(car)
         THEN [d EXCEPT !.leveling = FALSE, !.test_start_time = 0,
                        !.levelings = @ + 1,
                        !.leveled_for = d.level_start_time]
         ELSE [d EXCEPT !.level_start_time = 0, !.controls = "level"]
    ELSE [d EXCEPT !.controls = "level"]

\* reset_for_next_axis without emptying data_points
reset_keeping_data_points(d) ==
    [d EXCEPT !.test_start_time = NoTime,
              !.setup_complete = FALSE, !.leveling = FALSE]

reset_for_next_axis(d) ==
    [d EXCEPT !.data_points = {}, !.test_start_time = NoTime,
              !.setup_complete = FALSE, !.leveling = FALSE]

\* the current axis test is complete: store its samples once, then go to
\* the next axis or analyse
AxisComplete(d) ==
    IF \E i \in 1 .. Len(d.axes_complete) :
           d.axes_complete[i] = d.current_axis
    THEN d
    ELSE LET e == [d EXCEPT !.all_data[d.current_axis] = d.data_points,
                            !.axes_complete = Append(@, d.current_axis)]
         IN  IF d.current_axis = "pitch"
             THEN reset_for_next_axis([e EXCEPT !.current_axis = "yaw"])
             ELSE IF d.current_axis = "yaw"
             THEN reset_for_next_axis([e EXCEPT !.current_axis = "roll"])
             ELSE [e EXCEPT !.analyses = @ + 1, !.test_complete = TRUE]

\* Phase 3: run the rotation test and record a sample per call
RotationTest(d) ==
    LET e == [d EXCEPT !.test_start_time = IF @ = NoTime THEN 0 ELSE @]
    IN  IF e.test_start_time < test_duration
        THEN [e EXCEPT !.controls = e.current_axis,
                       !.data_points = @ \cup {e.current_axis}]
        ELSE AxisComplete(e)

\* the body of FennecCenterOfMassMultiAxis.get_output
FennecChain(d, pkt) ==
    IF d.test_complete THEN d
    ELSE IF ~d.setup_complete THEN FennecSetup(d)
    ELSE IF d.leveling THEN FennecLeveling(d, pkt.car)
    ELSE RotationTest(d)

InitFennec ==
    /\ BotRun("FennecCenterOfMassMultiAxis")
    /\ drv = FennecBot

\* one call of FennecCenterOfMassMultiAxis.get_output by the framework
fennec_get_output(pkt) ==
    /\ drv.mode = "fennec"
    /\ drv' = FennecChain(AgedFennec(drv, pkt.dt), pkt)
    /\ inp' = pkt.car
    /\ UNCHANGED <<impl, p, hz, w, dar_on, prev, frame, twin>>

NextFennec == \E pkt \in Packets : fennec_get_output(pkt)

SpecFennec == InitFennec /\ [][NextFennec]_vars

\* the two bots with a levelling phase
InitLeveling == InitFennec \/ InitArchived

NextLeveling == NextFennec \/ NextArchived

SpecLeveling == InitLeveling /\ [][NextLeveling]_vars

----------------------------------------------------------------------------
(* The stages of the last step, recomputed from prev and inp *)

\* the DAR flag the last step computed with
LastDar ==
    IF impl = "L4Physics" THEN inp.dar ELSE SimDarOn(inp.air_roll, inp.dar)

\* eff of the last step
LastEff ==
    IF impl = "L4Physics" THEN L4Eff(inp.ux, inp.uy)
    ELSE SimStick(p, inp.ux, inp.uy).eff

\* the horizontal stick the last step computed its desired rates with
LastStickX ==
    IF impl = "L4Physics" THEN inp.ux ELSE SimStick(p, inp.ux, inp.uy).x

\* the vertical stick the last step computed its desired rates with
LastStickY ==
    IF impl = "L4Physics" THEN inp.uy ELSE SimStick(p, inp.ux, inp.uy).y

\* the desired spin rates of the last step
LastDesired ==
    IF impl = "L4Physics"
    THEN L4Desired(p, inp.ux, inp.uy, inp.dar, inp.air_roll)
    ELSE SimDesired(p, inp.ux, inp.uy, inp.air_roll)

\* the unclamped PD demand of the last step
LastDemand ==
    IF impl = "L4Physics"
    THEN L4Demand(L4Desired(p, inp.ux, inp.uy, inp.dar, inp.air_roll), prev)
    ELSE SimDemand(SimDesired(p, inp.ux, inp.uy, inp.air_roll), prev)

\* the clamped acceleration the last step applied
LastAccel ==
    IF impl = "L4Physics"
    THEN L4Accel(p, prev, inp.ux, inp.uy, inp.dar, inp.air_roll)
    ELSE SimAccel(p, prev, inp.ux, inp.uy, inp.air_roll, LastDar)

\* self.w of the last step after  w += a * dt
LastIntegrated == Integrated(prev, LastAccel, hz)

\* self.w of the last step after the damping stage
LastDamped == Damped(LastIntegrated, LastEff, DampScale(p, hz, LastDar))

\* self.w of the last step after the per-axis caps
LastAxisCapped ==
    IF impl = "L4Physics" THEN L4AxisCapped(p, LastDamped)
    ELSE SimAxisCapped(p, LastDamped)

\* the last step's per-axis caps changed a component
AxisCapHit == LastAxisCapped # LastDamped

\* the last step's global cap scaled the vector
GlobalCapHit == length(LastAxisCapped) > p.w_max

----------------------------------------------------------------------------
(* Claims about single steps, checked on the free run *)

\* the last step ran with dt = 1/60 and the attributes __init__ sets
ShippedTick == frame > 0 /\ hz = 60 /\ p = ShippedParams(impl)

\* the last step's integrated vector lies within every cap of the integrator,
\* so neither the per-axis caps nor the global cap can trigger
NoCapTriggers ==
    /\ Abs(LastIntegrated.x) <= p.w_max_pitch
    /\ Abs(LastIntegrated.y) <= p.w_max_yaw
    /\ impl = "L4Physics" => Abs(LastIntegrated.z) <= p.w_max_roll
    /\ NormSq(LastIntegrated) <= p.w_max * p.w_max

\* C1 as stated: after every step the Euclidean norm of the angular velocity
\* is at most the global cap w_max.
C1_NormAtMostCap == NormSq(w) <= p.w_max * p.w_max

\* C1 amended: after every step the norm is at most w_max plus the rounding
\* error of the scaling: the factor w_max / |w| and each scaled component are
\* rounded, which together stay under two units of the arithmetic's resolution.
C1_NormAtMostCapEps == NormSq(w) <= (p.w_max + 2) * (p.w_max + 2)

\* C1 witness: the last step's global cap scaled the vector down.
C1_Witness == frame > 0 /\ GlobalCapHit /\ w # LastAxisCapped

\* C2: after every step |pitch rate| <= w_max_pitch and |yaw rate| <= w_max_yaw.
C2_AxisCaps == Abs(w.x) <= p.w_max_pitch /\ Abs(w.y) <= p.w_max_yaw

\* C2 witness: a per-axis cap clamped pitch or yaw and the global cap then
\* scaled the clamped vector.
C2_Witness ==
    /\ frame > 0
    /\ \/ Abs(LastDamped.x) > p.w_max_pitch
       \/ Abs(LastDamped.y) > p.w_max_yaw
    /\ GlobalCapHit

\* C3: a step from the zero state with both stick axes at 0 and roll mode 0
\* leaves the state exactly zero, for either DAR flag and either dt.
C3_ZeroStays ==
    (frame > 0 /\ prev = Zero /\ inp.ux = 0 /\ inp.uy = 0 /\ inp.air_roll = 0)
        => w = Zero

\* C3 witness: two or more neutral ticks with DAR on, the state still zero.
C3_Witness ==
    /\ frame >= 2 /\ prev = Zero /\ w = Zero
    /\ inp = Input(0, 0, 0, TRUE) /\ hz = 10

\* C4: on a tick with eff >= 0.02 where no cap triggers, each axis's new
\* rate is its old rate plus the clamped PD acceleration times dt.
C4_NoDampingWhileHeld ==
    (frame > 0 /\ LastEff >= NoStickEff /\ NoCapTriggers) =>
        /\ w.x = prev.x + RoundDiv(LastAccel.x, hz)
        /\ w.y = prev.y + RoundDiv(LastAccel.y, hz)
        /\ w.z = prev.z + RoundDiv(LastAccel.z, hz)

\* C4 witness: a held-stick tick from a moving state, no cap triggered, the
\* rate changed.
C4_Witness ==
    /\ frame > 1 /\ LastEff >= NoStickEff /\ NoCapTriggers
    /\ prev # Zero /\ w # prev

\* the last step's desired roll rate was zero and its stick exactly zero
ZeroTarget ==
    /\ inp.ux = 0 /\ inp.uy = 0
    /\ ~(impl = "L4Physics" /\ inp.dar /\ inp.air_roll \in {-1, 1})

\* C5 as stated: with dt = 1/60 and the shipped parameters, every tick with
\* eff < 0.02 from a nonzero state makes the norm strictly smaller.
C5_DecayStrict ==
    (ShippedTick /\ prev # Zero /\ LastEff < NoStickEff)
        => NormSq(w) < NormSq(prev)

\* C5 amended: with dt = 1/60 and the shipped parameters, every tick whose
\* stick is exactly zero and whose desired roll rate is zero never makes
\* the norm larger, and makes it strictly smaller whenever some component
\* is above the rounding resolution (norm^2 > 3 units).
C5_DecayOnRelease ==
    (ShippedTick /\ prev # Zero /\ ZeroTarget) =>
        /\ NormSq(w) <= NormSq(prev)
        /\ NormSq(prev) > 3 => NormSq(w) < NormSq(prev)

\* C5 witness: a release tick from a state well above the resolution.
C5_Witness ==
    /\ ShippedTick /\ ZeroTarget /\ NormSq(prev) > 10000
    /\ NormSq(w) < NormSq(prev)

----------------------------------------------------------------------------
(* Claims about two objects, checked on the paired run *)

\* the acceleration limits of an object with attributes q
MaxAccelOf(q) ==
    IF impl = "L4Physics" THEN L4MaxAccel(q, LastDar) ELSE SimMaxAccel(q, LastDar)

\* the last step's PD demand lies within the limits lim on every axis
DemandWithin(lim) ==
    /\ Abs(LastDemand.x) <= lim.x
    /\ Abs(LastDemand.y) <= lim.y
    /\ Abs(LastDemand.z) <= lim.z

\* both objects made their last step from the same nonzero state with a
\* neutral stick, DAR inactive and roll mode 0, and differ in their
\* acceleration limits only
ReleasePair ==
    /\ frame > 0 /\ twin.on /\ twin.p # p
    /\ prev # Zero /\ twin.prev = prev
    /\ inp = Input(0, 0, 0, FALSE) /\ twin.inp = inp

\* C6 as stated: two integrators that differ only in their acceleration
\* limits, stepped from the same nonzero state with a neutral stick, are in
\* the same state after the step.
C6_LimitsIrrelevant == ReleasePair => w = twin.w

\* C6 amended: they are in the same state after the step provided the PD
\* demand  -(Kp + Kd) * w  of the step is within the limits of both.
C6_LimitsIrrelevantUnclamped ==
    (ReleasePair /\ DemandWithin(MaxAccelOf(p)) /\ DemandWithin(MaxAccelOf(twin.p)))
        => w = twin.w

\* C6 witness: a release step of both from the same state, unclamped in
\* both, that changed the state.
C6_Witness ==
    /\ ReleasePair /\ DemandWithin(MaxAccelOf(p)) /\ DemandWithin(MaxAccelOf(twin.p))
    /\ w = twin.w /\ w # prev

\* C10: two objects with the same attributes that make a step from the same
\* angular velocity with the same input sample are in the same state after
\* it, whatever inputs and stored dar_on their earlier steps left.
C10_NoHiddenState ==
    (frame > 0 /\ twin.on /\ twin.p = p /\ twin.prev = prev /\ twin.inp = inp)
        => w = twin.w

\* C10 witness: such a step of two simulators whose stored dar_on differed
\* before it, the step having changed the state.
C10_Witness ==
    /\ frame > 1 /\ twin.on /\ twin.p = p /\ twin.prev = prev /\ twin.inp = inp
    /\ impl = "L4PhysicsSimulator" /\ drv.dar_before # twin.dar_before
    /\ w = twin.w /\ w # prev

----------------------------------------------------------------------------
(* Claims about whole runs, checked on the drivers *)

\* the last frame held a full single-axis stick with DAR inactive
HeldNoDar == drv.mode = "run" /\ drv.phase = "INPUT" /\ ~inp.dar

\* C7: while a full single-axis stick is held from the zero state with DAR
\* inactive, no axis rate shrinks in magnitude from one tick to the next, the
\* norm stays within the global cap, and once a tick leaves the state
\* unchanged every later tick of the hold does.
C7_MonotoneHold ==
    [][(drv'.mode = "run" /\ drv'.phase = "INPUT" /\ ~inp'.dar)
        => /\ Abs(w'.x) >= Abs(w.x)
           /\ Abs(w'.y) >= Abs(w.y)
           /\ Abs(w'.z) >= Abs(w.z)
           /\ NormSq(w') <= p.w_max * p.w_max
           /\ (HeldNoDar /\ w = prev) => w' = w]_vars

\* C7 witness: a tick late in such a hold that left the steady value, the
\* largest magnitude of the run, unchanged.
C7_Witness ==
    /\ HeldNoDar /\ drv.held = input_duration * hz
    /\ w = prev /\ w # Zero /\ length(w) = drv.peak

\* the last frame held the full vertical stick with DAR inactive
VerticalHold ==
    drv.mode = "run" /\ drv.phase = "INPUT" /\ inp = Input(0, StickScale, 0, FALSE)

\* C8 as stated: when 5 s of full vertical stick have been held, the pitch
\* rate is steady at a value strictly below the global cap.
C8_SteadyBelowCap ==
    (VerticalHold /\ drv.held = input_duration * hz)
        => (w = prev /\ Abs(w.x) < p.w_max)

\* C8 amended: from half a second into the hold until its end the pitch rate
\* is steady at exactly the global cap, each tick's global cap scaling the
\* integrated rate back to it.
C8_SteadyAtCap ==
    (VerticalHold /\ drv.held >= hz \div 2)
        => (w = prev /\ w = Vector3(p.w_max, 0, 0) /\ GlobalCapHit)

\* C8 witness: the simulator's state after 5 s of full vertical stick.
C8_Witness ==
    /\ VerticalHold /\ drv.held = input_duration * hz
    /\ impl = "L4PhysicsSimulator"
    /\ w = prev /\ w.x = p.w_max

\* a frame of the release phase of a run whose hold was a full pitch or yaw
\* stick with DAR inactive
ReleaseNoDar ==
    /\ drv.mode = "run" /\ drv.phase = "RELEASE"
    /\ drv.test \in {1, 3}

\* the magnitude is below 5% of the largest magnitude recorded
BelowFivePercent == length(w) * 20 < drv.peak

\* C9 as stated: after release the rate is first below 5% of its peak not
\* earlier than 60 ticks and not later than 90 ticks after the release.
C9_FivePercentAfterOneSecond ==
    ReleaseNoDar => /\ drv.rel < hz => ~BelowFivePercent
                    /\ drv.rel >= (3 * hz) \div 2 => BelowFivePercent

\* C9 amended: after release the magnitude never grows, and it is first
\* below 5% of its peak not earlier than 16 ticks and not later than 20
\* ticks after the release (0.27 s to 0.33 s).
C9_FivePercentAfterQuarterSecond ==
    ReleaseNoDar => /\ NormSq(w) <= NormSq(prev)
                    /\ drv.rel < 16 => ~BelowFivePercent
                    /\ drv.rel >= 20 => BelowFivePercent

\* C9 witness: the vertical-stick run one tick before and at the tick where
\* the magnitude is first below 5% of the peak of 5.5 rad/s.
C9_Witness ==
    /\ ReleaseNoDar /\ inp = Input(0, 0, 0, FALSE)
    /\ drv.peak = p.w_max
    /\ BelowFivePercent /\ length(prev) * 20 >= drv.peak
    /\ prev.x > 0 /\ drv.rel \in 16..17

----------------------------------------------------------------------------
(* Claims about the stages of a step, checked on the free run *)

\* the base acceleration limits in rad/s^2
BaseLimit ==
    IF impl = "L4Physics"
    THEN Vector3(DegToRad(p.max_accel_pitch), DegToRad(p.max_accel_yaw),
                 DegToRad(p.max_accel_roll))
    ELSE Vector3(p.max_accel_pitch_rad, p.max_accel_yaw_rad, p.max_accel_roll_rad)

\* the DAR multipliers of the three axes
DarMult ==
    IF impl = "L4Physics"
    THEN Vector3(L4DarPitchMult, L4DarYawMult, L4DarRollMult)
    ELSE Vector3(p.dar_pitch_mult, p.dar_yaw_mult, p.dar_roll_mult)

\* the limit of each axis on the last step: the base limit, times the DAR
\* multiplier exactly when DAR was active
AxisLimit ==
    IF LastDar
    THEN Vector3(RoundDiv(BaseLimit.x * DarMult.x, MultScale),
                 RoundDiv(BaseLimit.y * DarMult.y, MultScale),
                 RoundDiv(BaseLimit.z * DarMult.z, MultScale))
    ELSE BaseLimit

\* C11: the acceleration a step integrates has on each axis magnitude at most
\* the axis limit and the sign of the unclamped PD demand; with no damping
\* and no cap triggered the rate of each axis changes by at most limit * dt.
C11_AccelClamped ==
    frame > 0 =>
        /\ Abs(LastAccel.x) <= AxisLimit.x /\ Sign(LastAccel.x) = Sign(LastDemand.x)
        /\ Abs(LastAccel.y) <= AxisLimit.y /\ Sign(LastAccel.y) = Sign(LastDemand.y)
        /\ Abs(LastAccel.z) <= AxisLimit.z /\ Sign(LastAccel.z) = Sign(LastDemand.z)
        /\ (LastEff >= NoStickEff /\ NoCapTriggers) =>
              /\ Abs(w.x - prev.x) <= RoundDiv(AxisLimit.x, hz)
              /\ Abs(w.y - prev.y) <= RoundDiv(AxisLimit.y, hz)
              /\ Abs(w.z - prev.z) <= RoundDiv(AxisLimit.z, hz)

\* C11 witness: a held-stick tick with DAR active whose yaw demand exceeded
\* the multiplied limit, no cap triggered, the yaw rate moved by exactly
\* limit * dt.
C11_Witness ==
    /\ frame > 0 /\ LastDar /\ DarMult.y # MultScale
    /\ LastEff >= NoStickEff /\ NoCapTriggers
    /\ Abs(LastDemand.y) > AxisLimit.y
    /\ Abs(w.y - prev.y) = RoundDiv(AxisLimit.y, hz)

\* the limit of the axis a test of the acceleration test measures
TestedLimit(tst) ==
    IF tst.axis_name = "pitch" THEN AxisLimit.x
    ELSE IF tst.axis_name = "yaw" THEN AxisLimit.y
    ELSE AxisLimit.z

\* C12: in each of the six configurations of the acceleration test the
\* acceleration applied on the tested axis by the first full-stick step from
\* rest equals the axis's base limit, times its DAR multiplier when dar_on.
C12_FirstStepSaturates ==
    (drv.mode = "accel" /\ frame = 1)
        => drv.l4_accel = TestedLimit(AccelTests[drv.test])

\* C12 witness: the roll test with DAR, measured at 2153 deg/s^2 times 0.98.
C12_Witness ==
    /\ drv.mode = "accel" /\ frame = 1 /\ drv.test = 6
    /\ drv.l4_accel = RoundDiv(DegToRad(2153) * 980, 1000)
    /\ drv.last_accel.z < 0

\* C13: on a tick in free-roll mode (air_roll = 2) the desired yaw rate is 0
\* and the desired roll rate is w_max_roll * eff * (-horizontal stick); a yaw
\* rate of zero stays exactly zero over the tick whatever the stick.
C13_FreeRollNoYaw ==
    (frame > 0 /\ inp.air_roll = 2) =>
        /\ LastDesired.y = 0
        /\ LastDesired.z =
              RoundDiv(p.w_max_roll * LastEff * (-LastStickX), StickScale * StickScale)
        /\ prev.y = 0 => w.y = 0

\* C13 witness: a free-roll tick with the full horizontal stick, after an
\* earlier tick, that drove the roll rate and left the yaw rate at zero.
C13_Witness ==
    /\ frame > 1 /\ inp.air_roll = 2 /\ inp.ux = StickScale
    /\ prev.y = 0 /\ w.y = 0 /\ w.z < prev.z /\ LastDesired.z < 0

\* 2 * pi / free_roll_period of L4Physics, the roll rate of a DAR roll
DarRollSpeed ==
    RoundDiv(2 * PiNum * RateScale * CoefScale, PiDen * L4Params.free_roll_period)

\* C14: in roll modes -1, 0 and 1 the desired roll rate is 0 unless DAR is
\* active and the mode is -1 or 1, and then it is direction * 2 * pi /
\* free_roll_period, in both integrators.
C14_DarRollTarget ==
    (frame > 0 /\ inp.air_roll \in {-1, 0, 1}) =>
        LastDesired.z = IF LastDar /\ inp.air_roll # 0
                        THEN inp.air_roll * DarRollSpeed
                        ELSE 0

\* a and b have the same direction up to the rounding of a's components:
\* no component of a has the opposite sign of b's, and the cross products
\* a.i * b.j - a.j * b.i are within half a unit times |b.i| + |b.j|
SameDirection(a, b) ==
    /\ a.x * b.x >= 0 /\ a.y * b.y >= 0 /\ a.z * b.z >= 0
    /\ 2 * Abs(a.x * b.y - a.y * b.x) <= Abs(b.x) + Abs(b.y)
    /\ 2 * Abs(a.y * b.z - a.z * b.y) <= Abs(b.y) + Abs(b.z)
    /\ 2 * Abs(a.z * b.x - a.x * b.z) <= Abs(b.z) + Abs(b.x)

\* C18 as stated: when the norm after the per-axis caps exceeds w_max the
\* vector is scaled uniformly and its norm then equals w_max; otherwise the
\* global cap leaves the vector unchanged.
C18_ScaledExactlyToCap ==
    frame > 0 =>
        IF GlobalCapHit
        THEN SameDirection(w, LastAxisCapped) /\ NormSq(w) = p.w_max * p.w_max
        ELSE w = LastAxisCapped

\* C18 amended: the norm of the scaled vector equals w_max up to the rounding
\* error of the scaling (under two units of resolution either way).
C18_ScaledToCap ==
    frame > 0 =>
        IF GlobalCapHit
        THEN /\ SameDirection(w, LastAxisCapped)
             /\ NormSq(w) <= (p.w_max + 2) * (p.w_max + 2)
             /\ NormSq(w) >= (p.w_max - 2) * (p.w_max - 2)
        ELSE w = LastAxisCapped

\* C18 witness: the global cap scaled a vector with two nonzero components,
\* one of them negative, and shortened both.
C18_Witness ==
    /\ frame > 0 /\ GlobalCapHit
    /\ LastAxisCapped.x > 0 /\ LastAxisCapped.z < 0
    /\ w.x > 0 /\ w.x < LastAxisCapped.x
    /\ w.z < 0 /\ w.z > LastAxisCapped.z

----------------------------------------------------------------------------
(* Claims about configurations, checked on the configured run *)

\* the damping coefficient C15 names, in CoefScale units
DampCoefficient == IF LastDar THEN p.damp_dar ELSE p.damp + p.brake_on_release

\* the last step's vector after the damping stage as C15 states it
DampingAsStated ==
    IF LastEff < NoStickEff
    THEN multiply_scalar(LastIntegrated,
                         ExpNeg(RoundDiv(DampCoefficient * (FactorScale \div CoefScale), hz)))
    ELSE LastIntegrated

\* the last step of the same object with the release brake taken away
Unbraked == StepOf(impl, [p EXCEPT !.brake_on_release = 0], prev, dar_on, hz, inp).w

\* C15: the damping factor is applied on a tick exactly when eff < 0.02, with
\* the coefficient damp_dar when DAR is active and damp + brake_on_release
\* when it is not (seen in w itself on ticks where no cap changes the
\* vector), and the release brake has no effect on a tick where DAR is active.
C15_DampingSelection ==
    frame > 0 =>
        /\ LastDamped = DampingAsStated
        /\ (~AxisCapHit /\ ~GlobalCapHit) => w = DampingAsStated
        /\ LastDar => w = Unbraked

\* C15 witness: with the release brake set, a released tick without DAR
\* damped a moving vector harder than it would without the brake, and no cap
\* acted.
C15_Witness ==
    /\ frame > 1 /\ p.brake_on_release > 0
    /\ ~LastDar /\ LastEff < NoStickEff
    /\ ~AxisCapHit /\ ~GlobalCapHit
    /\ LastIntegrated.x > 0
    /\ w = DampingAsStated /\ w.x < Unbraked.x /\ Unbraked.x < LastIntegrated.x

\* sqrt(ux^2 + uy^2) of a sample, before any clamp
StickMagnitude(in) == Sqrt(in.ux * in.ux + in.uy * in.uy)

\* the sample with its stick shortened to magnitude 1, direction kept
UnitStick(in) ==
    [in EXCEPT !.ux = RoundDiv(in.ux * StickScale, StickMagnitude(in)),
               !.uy = RoundDiv(in.uy * StickScale, StickMagnitude(in))]

\* the last step, had its stick been shortened to magnitude 1
UnitStep == StepOf(impl, p, prev, dar_on, hz, UnitStick(inp)).w

\* the last step's stick had a magnitude greater than 1
OutOfRange == frame > 0 /\ StickMagnitude(inp) > StickScale

\* C16: for a stick of magnitude greater than 1 the step produces the same
\* next state as for the stick of the same direction and magnitude 1, and the
\* desired pitch and yaw rates stay within their per-axis caps.
C16_StickClamped ==
    OutOfRange =>
        /\ w = UnitStep
        /\ Abs(LastDesired.x) <= p.w_max_pitch
        /\ Abs(LastDesired.y) <= p.w_max_yaw

\* C17 as stated: after every step of either integrator the roll rate is
\* within the roll cap, whatever the configuration.
C17_RollCapBoth == frame > 0 => Abs(w.z) <= p.w_max_roll

\* C17 amended: the roll rate is within the roll cap after every step of
\* L4Physics; L4PhysicsSimulator has no roll clamp and its roll rate is
\* bounded by the global cap only (up to the rounding of the scaling).
C17_RollCap ==
    frame > 0 =>
        /\ impl = "L4Physics" => Abs(w.z) <= p.w_max_roll
        /\ impl = "L4PhysicsSimulator" => Abs(w.z) <= p.w_max + 2

\* C17 witness: with the roll cap below the global cap, a step of L4Physics
\* brought the roll rate above the roll cap and the clamp set it to the cap.
C17_Witness ==
    /\ frame > 0 /\ impl = "L4Physics"
    /\ p.w_max_roll < p.w_max
    /\ Abs(LastDamped.z) > p.w_max_roll
    /\ ~GlobalCapHit
    /\ Abs(w.z) = p.w_max_roll

----------------------------------------------------------------------------
(* The two integrators compared *)

\* L4PhysicsSimulator.update with its PD gains and its DAR multipliers set
\* to those of L4Physics.integrate, on an object with the attributes q of an
\* L4Physics object: the new self.w for the sample in, handbrake = in.dar
updateEqualised(q, v, h, in) ==
    LET dar == SimDarOn(in.air_roll, in.dar)
        s == SimMagnitude(in.ux, in.uy)
        a == SimClamp(L4Demand(Desired(q, s.eff, s.x, s.y, in.air_roll, 0), v),
                      L4MaxAccel(q, dar))
    IN  GlobalCapped(q, SimAxisCapped(q,
            Damped(Integrated(v, a, h), s.eff, DampScale(q, h, dar))))

\* the roll clamp of the last step of L4Physics changed nothing
RollCapNotBinding == Abs(LastDamped.z) <= p.w_max_roll

\* C19: with the gains and multipliers set equal and the roll cap not
\* binding, integrate and update produce the same next state from the same
\* state, for every stick, roll mode and DAR flag.
C19_SameNextState ==
    (frame > 0 /\ impl = "L4Physics" /\ RollCapNotBinding) =>
        w = updateEqualised(p, prev, hz, inp)

----------------------------------------------------------------------------
(* Construction *)

\* the damping coefficients and the acceleration limits are all positive
PositiveConfig(q) ==
    /\ q.damp > 0 /\ q.damp_dar > 0
    /\ q.max_accel_pitch > 0 /\ q.max_accel_yaw > 0 /\ q.max_accel_roll > 0

\* C20: a non-positive damping coefficient or acceleration limit is refused
\* with a configuration error, so no step is ever executed with one.
C20_NoStepWithBadConfig == frame > 0 => PositiveConfig(p)

----------------------------------------------------------------------------
(* Claims about the drivers' loops, checked on the drivers *)

\* the total duration of the run in seconds
RunSeconds == IF impl = "L4Physics" THEN total_duration ELSE duration

\* the driver's loop has ended
RunOver ==
    IF impl = "L4Physics" THEN frame >= num_frames(hz)
    ELSE drv.t >= duration * Micro

\* C21: a run over the duration D with tick interval dt ends after exactly
\* D/dt steps, with one step and one row per tick, the rows numbered
\* 0, 1, 2, ... with time = frame * dt.
C21_TickCount ==
    drv.mode = "run" =>
        /\ drv.rows = frame
        /\ frame > 0 => /\ drv.row.frame = frame - 1
                        /\ drv.row.time = (frame - 1) * TickMicros(hz)
        /\ frame <= RunSeconds * hz
        /\ RunOver => frame = RunSeconds * hz

\* the full single-axis stick of the test tst: vertical for pitch,
\* horizontal for yaw and roll
FullStick(tst, in) ==
    IF tst.test_name = "pitch" THEN in.ux = 0 /\ in.uy = StickScale
    ELSE in.ux = StickScale /\ in.uy = 0

\* C22: in run_l4_simulation the rows are labelled STABILIZE, INPUT, RELEASE
\* in three contiguous blocks of 2 s, 5 s and 3 s in that order (the numbers
\* of INPUT and RELEASE rows so far fix the block the last row is in), the
\* stick is neutral on STABILIZE and RELEASE ticks and the full single-axis
\* stick on INPUT ticks.
C22_PhaseBlocks ==
    (drv.mode = "run" /\ impl = "L4Physics" /\ frame > 0) =>
        /\ drv.phase \in {"STABILIZE", "INPUT", "RELEASE"}
        /\ drv.phase = "STABILIZE" =>
              /\ frame <= stabilize_duration * hz
              /\ drv.held = 0 /\ drv.rel = 0
              /\ inp.ux = 0 /\ inp.uy = 0
        /\ drv.phase = "INPUT" =>
              /\ drv.held = frame - stabilize_duration * hz
              /\ drv.held <= input_duration * hz /\ drv.rel = 0
              /\ FullStick(L4Tests[drv.test], inp)
        /\ drv.phase = "RELEASE" =>
              /\ drv.held = input_duration * hz
              /\ drv.rel = frame - (stabilize_duration + input_duration) * hz
              /\ drv.rel <= release_duration * hz
              /\ inp.ux = 0 /\ inp.uy = 0
        /\ RunOver => drv.phase = "RELEASE" /\ drv.rel = release_duration * hz

\* C22 witness: a run of run_l4_simulation has ended with 300 INPUT rows
\* behind 120 STABILIZE rows and 180 RELEASE rows after them.
C22_Witness ==
    /\ drv.mode = "run" /\ impl = "L4Physics" /\ RunOver
    /\ drv.phase = "RELEASE" /\ drv.held = 300 /\ drv.rel = 180
    /\ drv.rows = 600 /\ inp.ux = 0 /\ inp.uy = 0

\* C23: every driver call starts from the zero state with a fresh object,
\* and every row it records is the row of the same test run alone, whichever
\* test was run before it.
C23_RunIsolation ==
    drv.mode = "session" =>
        /\ frame = 0 => w = Zero /\ dar_on = FALSE /\ p = ShippedParams(impl)
        /\ w = twin.w
        /\ drv.rows = frame

\* C23 witness: the second call of a session, made after the 'Roll DAR'
\* test, is past the first half second of its hold phase and its row is the
\* row of the test run alone.
C23_Witness ==
    /\ drv.mode = "session"
    /\ drv.calls = 2 /\ drv.before = 6 /\ drv.test # 6
    /\ drv.phase = "INPUT" /\ drv.held > 30
    /\ w # Zero /\ w = twin.w

----------------------------------------------------------------------------
(* Release at other tick intervals, checked on the free run *)

\* the last step had a neutral stick, DAR inactive and roll mode neutral,
\* and started from a nonzero state
NeutralRelease == frame > 0 /\ inp = Input(0, 0, 0, FALSE) /\ prev # Zero

\* no component of w has the sign opposite to that of prev
SignsKept == w.x * prev.x >= 0 /\ w.y * prev.y >= 0 /\ w.z * prev.z >= 0

\* the largest Kp + Kd of the integrator: up to this tick rate 1/dt the
\* explicit step w + a * dt can reach or pass zero
GainSum ==
    IF impl = "L4Physics" THEN Kp + Kd
    ELSE Max(KpPitch + KdPitch, Max(KpYaw + KdYaw, KpRoll + KdRoll))

----------------------------------------------------------------------------
(* Claims about main's schedules of automated_physics_test.py *)

\* the last row of run_test belongs to the hold phase of main's k-th test
SimHold(k) ==
    /\ drv.mode = "run" /\ impl = "L4PhysicsSimulator"
    /\ drv.test = k /\ frame > 0 /\ drv.phase = "INPUT"

\* C25: joy_x is the pitch input: on every hold tick of the 'Pitch No-DAR'
\* schedule (joy_x = 1, joy_y = 0) the pitch rate w.x is nonzero and the yaw
\* rate w.y is zero, and the recorded input_pitch (joy_x) sets the desired
\* pitch rate.
C25_JoyXIsPitch ==
    SimHold(1) =>
        /\ inp.ux = StickScale /\ inp.uy = 0
        /\ w.x # 0 /\ w.y = 0
        /\ LastDesired.x # 0 /\ LastDesired.y = 0

\* C26: the hold phase of the 'Roll DAR' schedule (air roll free, handbrake
\* held, full stick) runs with DAR active: dar_on is true, which is what the
\* row records as dar_active, and the acceleration limits of the tick are
\* the base limits times the DAR multipliers.
C26_RollDarHoldsDar ==
    SimHold(6) =>
        /\ inp.dar /\ inp.air_roll = 2
        /\ dar_on
        /\ AxisLimit = SimMaxAccel(p, TRUE)

----------------------------------------------------------------------------
(* Claims about the STABILIZE phase of run_l4_simulation *)

\* C27: in each of the six tests of run_l4_simulation the angular velocity
\* is exactly zero on every STABILIZE row, the last one included, and the
\* first INPUT tick starts from rest.
C27_StabilizeAtRest ==
    (drv.mode = "run" /\ impl = "L4Physics" /\ frame > 0) =>
        /\ drv.phase = "STABILIZE" => w = Zero
        /\ (drv.phase = "INPUT" /\ drv.held = 1) => prev = Zero

----------------------------------------------------------------------------
(* The stored attributes across steps, checked on the free run *)

\* the acceleration limits in rad/s^2 that __init__ sets, before any step
InitialLimit ==
    IF impl = "L4Physics"
    THEN Vector3(DegToRad(L4Params.max_accel_pitch),
                 DegToRad(L4Params.max_accel_yaw),
                 DegToRad(L4Params.max_accel_roll))
    ELSE Vector3(SimParams.max_accel_pitch_rad,
                 SimParams.max_accel_yaw_rad,
                 SimParams.max_accel_roll_rad)

\* the initial limits times the DAR multipliers, each applied once
InitialLimitDar ==
    IF impl = "L4Physics"
    THEN Vector3(RoundDiv(InitialLimit.x * L4DarPitchMult, MultScale),
                 RoundDiv(InitialLimit.y * L4DarYawMult, MultScale),
                 RoundDiv(InitialLimit.z * L4DarRollMult, MultScale))
    ELSE Vector3(RoundDiv(InitialLimit.x * SimParams.dar_pitch_mult, MultScale),
                 RoundDiv(InitialLimit.y * SimParams.dar_yaw_mult, MultScale),
                 RoundDiv(InitialLimit.z * SimParams.dar_roll_mult, MultScale))

\* the limit, per tick, that the last step had to keep if the limits are
\* the initial ones
TickLimit ==
    IF LastDar
    THEN Vector3(RoundDiv(InitialLimitDar.x, hz), RoundDiv(InitialLimitDar.y, hz),
                 RoundDiv(InitialLimitDar.z, hz))
    ELSE Vector3(RoundDiv(InitialLimit.x, hz), RoundDiv(InitialLimit.y, hz),
                 RoundDiv(InitialLimit.z, hz))

PhaseAfter(ph) ==
    CASE ph = "SETUP" -> "POST_TELEPORT_WAIT"
      [] ph = "POST_TELEPORT_WAIT" -> "STABILIZING"
      [] ph = "STABILIZING" -> "SPINNING_UP"
      [] ph = "SPINNING_UP" -> "MEASURING"
      [] ph = "MEASURING" -> "POST_MEASUREMENT_STABILIZING"
      [] ph = "POST_MEASUREMENT_STABILIZING" -> "SETUP"
      [] OTHER -> "NONE"

\* the flags of the five phases that follow the teleport
PhaseFlags(d) ==
    <<d.post_teleport_wait, d.stabilizing, d.spinning_up, d.measuring,
      d.post_measurement_stabilizing>>

\* how many of the five phase flags are set
FlagsSet(d) == Cardinality({k \in 1..5 : PhaseFlags(d)[k]})

\* C29: once the game has started, a call of get_output leaves the bot in
\* the phase it was in or moves it to the next phase of the cycle SETUP,
\* POST_TELEPORT_WAIT, STABILIZING, SPINNING_UP, MEASURING,
\* POST_MEASUREMENT_STABILIZING, SETUP: no phase is skipped or re-entered
\* and a new SETUP follows only POST_MEASUREMENT_STABILIZING.
C29_PhaseOrder ==
    [][(drv.mode = "bot" /\ drv.game_started)
        => get_current_phase_name(drv')
             \in {get_current_phase_name(drv),
                  PhaseAfter(get_current_phase_name(drv))}]_vars

\* C30: at every tick after the game-start wait and before all measurements
\* are complete, setup_complete is false or exactly one of the five phase
\* flags is true, and the fall-through branch has never been taken.
C30_OnePhase ==
    (/\ drv.mode = "bot"
     /\ ~drv.stopped
     /\ ~drv.waiting_for_game_start
     /\ drv.current_angle_index < NumAngles)
    => /\ ~drv.setup_complete \/ FlagsSet(drv) = 1
       /\ get_current_phase_name(drv) # "UNKNOWN"
       /\ ~drv.fell_through

\* C31: the bot leaves STABILIZING for SPINNING_UP only on a call that has
\* computed an elapsed stabilisation time of at least 5 s and whose car
\* passes is_car_stable, so spin-up inputs never follow a failed check.
C31_StabilityGate ==
    [][(drv.mode = "bot" /\ drv.stabilizing /\ drv'.spinning_up)
        => /\ drv'.elapsed >= stabilization_min_duration
           /\ is_car_stable(inp')]_vars

\* all 25 measurement cycles are over, analyze_and_save has run exactly
\* once and the call returned neutral controls
RunComplete ==
    /\ drv.current_angle_index = NumAngles
    /\ drv.current_mag_index = 0
    /\ drv.analysis_complete
    /\ drv.analyses = 1
    /\ drv.controls = "neutral"

\* C32: when the round is active and the clock advances between ticks, the
\* bot eventually completes all 5 x 5 measurement cycles, whether or not the
\* car is ever stable, runs analyze_and_save exactly once and returns
\* neutral controls from then on.
C32_Completes == <>[](drv.mode = "bot" => RunComplete)

\* len(self.stick_magnitudes) of the bot d
Magnitudes(d) ==
    IF d.mode = "archived" THEN ArchivedMagnitudes ELSE NumMagnitudes

\* the place of the current (angle, magnitude) pair in angle-major order
Position(d) == d.current_angle_index * Magnitudes(d) + d.current_mag_index

\* the measurement window of the current pair has been started
WindowStarted(d) ==
    \/ d.measuring
    \/ d.raised
    \/ d.mode = "bot" /\ d.post_measurement_stabilizing

\* the step ends a measurement cycle: the post-measurement stabilisation of
\* the bot, the measurement itself in the archived bot
CycleEnds ==
    IF drv.mode = "bot"
    THEN drv.post_measurement_stabilizing
         /\ ~drv'.post_measurement_stabilizing
    ELSE drv.measuring /\ ~drv'.measuring /\ ~drv'.raised

\* C33: in both tornado bots the index pair advances by exactly one place in
\* angle-major order on the step that ends a measurement cycle (by the
\* stability check or by the timeout) and on no other step;
\* current_mag_index stays below len(stick_magnitudes); every pair gets
\* exactly one measurement window, in order, so that all pairs have had one
\* when the bot is complete; and all_measurements grows by at most one
\* entry per window, on the step that ends the window.
C33_IndexProgression ==
    [][drv.mode \in {"bot", "archived"}
        => /\ Position(drv') = Position(drv) + (IF CycleEnds THEN 1 ELSE 0)
           /\ drv'.current_mag_index < Magnitudes(drv')
           /\ drv'.windows
                = Position(drv') + (IF WindowStarted(drv') THEN 1 ELSE 0)
           /\ drv'.analysis_complete
                => drv'.windows = NumAngles * Magnitudes(drv')
           /\ drv'.measurements \in {drv.measurements, drv.measurements + 1}
           /\ drv'.measurements # drv.measurements
                => drv.measuring /\ ~drv'.measuring
           /\ drv'.measurements <= drv'.windows]_vars

\* C33 witness: the bot has wrapped from the last magnitude of the first
\* angle to the second angle with one entry per pair, the last cycle ended
\* by the 15 s timeout.
C33_Witness ==
    /\ drv.mode = "bot"
    /\ drv.current_angle_index = 1
    /\ drv.current_mag_index = 0
    /\ drv.measurements = NumMagnitudes
    /\ drv.elapsed > StabilizationTimeout
    /\ ~drv.setup_complete

\* the step ends a measurement window in which the start or the opposite
\* nose position was not captured
FailedCapture ==
    /\ drv.mode \in {"bot", "archived"}
    /\ drv.measuring
    /\ ~drv'.measuring
    /\ ~(drv.start_nose_pos /\ drv.opposite_nose_pos)

\* C34: the call that ends a measurement window without both nose positions
\* appends nothing to all_measurements and goes on normally: it raises
\* nothing and the bot enters POST_MEASUREMENT_STABILIZING (the archived bot
\* moves on to the next pair).
C34_FailedCaptureGoesOn ==
    [][FailedCapture
        => /\ drv'.measurements = drv.measurements
           /\ ~drv'.raised
           /\ IF drv.mode = "bot"
              THEN drv'.post_measurement_stabilizing
              ELSE Position(drv') = Position(drv) + 1]_vars

\* the phase of the diagonal bot d
DiagonalPhase(d) ==
    IF d.waiting_for_game THEN "WAIT"
    ELSE IF d.current_angle_idx >= DiagonalAngles THEN "DONE"
    ELSE IF ~d.setup_complete THEN "SETUP"
    ELSE IF d.post_teleport_wait THEN "SETTLE"
    ELSE IF d.stabilizing THEN "STABILIZE"
    ELSE IF d.measuring THEN "MEASURE"
    ELSE "UNKNOWN"

\* the phases that may follow ph in one call
DiagonalAfter(ph) ==
    CASE ph = "WAIT" -> {"WAIT", "SETUP"}
      [] ph = "SETUP" -> {"SETTLE"}
      [] ph = "SETTLE" -> {"SETTLE", "STABILIZE"}
      [] ph = "STABILIZE" -> {"STABILIZE", "MEASURE"}
      [] ph = "MEASURE" -> {"MEASURE", "SETUP", "DONE"}
      [] ph = "DONE" -> {"DONE"}
      [] OTHER -> {}

\* the time the phase ph has to last before the bot leaves it
DiagonalAtLeast(ph) ==
    CASE ph = "SETTLE" -> DiagonalSettle
      [] ph = "STABILIZE" -> stabilization_duration
      [] ph = "MEASURE" -> diagonal_measurement_duration
      [] OTHER -> NoTime

\* C35: the diagonal bot starts after the round has been active for 2 s and
\* then, for each test angle in list order, goes through SETUP (teleport),
\* a settle phase of 0.5 s, a stabilisation of 3 s and a measurement of 5 s;
\* samples are appended only by measuring calls (setup empties them), each
\* test's samples are moved into measurement_data exactly once, the test
\* number advances exactly once per test, on the call that ends its
\* measurement, and save_data is called exactly once, after the last angle.
C35_DiagonalRun ==
    [][drv.mode = "diagonal"
        => LET ph == DiagonalPhase(drv)
               left == DiagonalPhase(drv') # ph
           IN  /\ DiagonalPhase(drv') \in DiagonalAfter(ph)
               /\ (left /\ ph = "WAIT")
                    => drv'.game_start_wait_time > DiagonalStartWait
               /\ (left /\ ph \in {"SETTLE", "STABILIZE", "MEASURE"})
                    => drv'.elapsed > DiagonalAtLeast(ph)
               /\ TestNumber(drv')
                    = TestNumber(drv)
                      + (IF left /\ ph = "MEASURE" THEN 1 ELSE 0)
               /\ drv'.current_test_data # drv.current_test_data
                    => ph \in {"SETUP", "MEASURE"}
               /\ ph = "SETUP" => drv'.current_test_data = {}
               /\ ph = "MEASURE"
                    => drv'.current_test_data = {TestNumber(drv)}
               /\ drv'.measurement_data
                    = [i \in 1 .. TestNumber(drv') |-> i - 1]
               /\ drv'.saves = (IF drv'.save_complete THEN 1 ELSE 0)
               /\ drv'.saves # drv.saves => ph = "DONE"]_vars

\* C35 witness: all five tests are in measurement_data and save_data has run
C35_Witness ==
    /\ drv.mode = "diagonal"
    /\ drv.saves = 1
    /\ drv.measurement_data = <<0, 1, 2, 3, 4>>
    /\ drv.controls = "neutral"

\* the axes in the order of the tests
AxisOrder == <<"pitch", "yaw", "roll">>

\* the axes already stored are the first ones of the order
TestedInOrder(d) ==
    /\ Len(d.axes_complete) <= 3
    /\ \A i \in 1 .. Len(d.axes_complete) : d.axes_complete[i] = AxisOrder[i]

\* an axis is stored on this step
AxisStored == Len(drv'.axes_complete) = Len(drv.axes_complete) + 1

\* C36: the Fennec bot tests pitch, yaw, roll in this order, each once and
\* each after a teleport and a levelling of its own; all_data[axis] holds
\* only samples recorded during the test of that axis and data_points is
\* empty again when the next axis starts; test_complete is set only with
\* all three axes stored and analyze_and_save called exactly once, and from
\* then on every call returns neutral controls and changes nothing but the
\* ages of the two time stamps.
C36_AxesInOrder ==
    [][drv.mode = "fennec" =>
          /\ TestedInOrder(drv')
          /\ Len(drv'.axes_complete) >= Len(drv.axes_complete)
          /\ AxisStored =>
                /\ drv'.axes_complete
                     = Append(drv.axes_complete, drv.current_axis)
                /\ drv'.teleports = Len(drv'.axes_complete)
                /\ drv'.levelings = Len(drv'.axes_complete)
                /\ drv'.all_data[drv.current_axis] = {drv.current_axis}
                /\ ~drv'.test_complete => drv'.data_points = {}
          /\ \A axis \in {"pitch", "yaw", "roll"} :
                drv'.all_data[axis] \subseteq {axis}
          /\ drv'.data_points \subseteq {drv'.current_axis}
          /\ drv'.test_complete
                => drv'.axes_complete = AxisOrder /\ drv'.analyses = 1
          /\ drv'.analyses = (IF drv'.test_complete THEN 1 ELSE 0)
          /\ drv.test_complete
                => drv' = [drv EXCEPT
                              !.controls = "neutral",
                              !.leveled_for = NoTime,
                              !.level_start_time = drv'.level_start_time,
                              !.test_start_time = drv'.test_start_time]]_vars

C36_Witness ==
    /\ drv.mode = "fennec"
    /\ drv.test_complete
    /\ drv.analyses = 1
    /\ drv.axes_complete = AxisOrder
    /\ \A axis \in {"pitch", "yaw", "roll"} : drv.all_data[axis] = {axis}
    /\ drv.teleports = 3
    /\ drv.levelings = 3

\* the bot leaves the levelling phase on this step
LeavesLeveling == drv.leveling /\ ~drv'.leveling

\* the rotation test of the Fennec bot or the spin-up of the archived
\* tornado bot starts on this step
TestStarts ==
    \/ /\ drv.mode = "fennec"
       /\ drv.test_start_time = NoTime
       /\ drv'.test_start_time # NoTime
    \/ /\ drv.mode = "archived"
       /\ ~drv.spinning_up
       /\ drv'.spinning_up

\* C37: the Fennec bot and the archived tornado bot leave the levelling
\* phase only on a call where more than 2 s have passed since levelling was
\* last (re)started and |pitch| < 0.05 and |roll| < 0.05; there is no
\* timeout: the rotation test or spin-up starts only by leaving levelling,
\* so never on a car that is not level, and a call with a car that is not
\* level keeps the bot levelling.
C37_LevelingGate ==
    [][drv.mode \in {"fennec", "archived"} =>
          /\ LeavesLeveling
                => /\ drv'.leveled_for > LevelCheckAfter
                   /\ drv'.leveled_for = Older(drv.level_start_time, 1)
                      \/ drv'.leveled_for = drv.level_start_time
                   /\ is_level(inp')
          /\ TestStarts => LeavesLeveling /\ is_level(inp')
          /\ drv.leveling /\ ~is_level(inp') => drv'.leveling]_vars

C37_Witness ==
    /\ drv.mode = "archived"
    /\ ~drv.leveling
    /\ drv.spinning_up
    /\ drv.leveled_for > LevelCheckAfter
    /\ is_level(inp)

=============================================================================
